---- MODULE Spec2Model ----
(***************************************************************************)
(* Model of the inquiry-analysis tool: the column normaliser, the data     *)
(* cleaner and the date formatter of AliBusinessAnalyzer (read_excel),     *)
(* its export, and the Streamlit session of ali_online.py that imports,    *)
(* filters, exports and saves the working dataset.                         *)
(*                                                                         *)
(* A text is a sequence of one-character strings (a character outside     *)
(* ASCII is written as the token uXXXX of its code point), so that lower(),*)
(* strip(), the substring test `keyword in header`, strftime and date      *)
(* parsing are computed and not assumed.  A cell of a table is a record    *)
(* tagged by its Python type: str, int, float, Timestamp or a null         *)
(* (None / NaN / NaT).  A table is [cols, rows]: the column labels in      *)
(* order and the rows as sequences of cells by position, so that two       *)
(* columns may carry the same label, as a pandas frame allows.             *)
(***************************************************************************)
EXTENDS Integers, Sequences, FiniteSets, TLC

VARIABLES
  df_in,      \* function runs: the frame the running pass was given
  df,         \* function runs: the frame as the last function returned it
  step,       \* function runs: the last function applied
  passes,     \* function runs: the cleaning passes started so far
  prev_out,   \* function runs: what the pass before this one returned
  file,       \* analyzer runs: the workbook on disk, a sequence of sheets
  data,       \* analyzer runs and web session: the analyzer's self.data
  out,        \* analyzer runs and web session: the last exported file
  session_data,    \* web session: st.session_state.data
  aliased,         \* web session: analyzer.data is the session_data object
  uploaded_files,  \* web session: the files held by the uploader widget
  range,           \* web session: the dates chosen in the sidebar
  saved,           \* web session: saved_data.xlsx
  now,               \* alert runs: what datetime.now() returned, call by call
  called_on,         \* alert runs: the dataset get_smart_alerts last ran on
  emitted,           \* alert runs: the local list alerts before the sort
  alerts,            \* alert runs: what get_smart_alerts returned or raised
  prev_call,         \* alert runs: the invocation before the last one
  analysis_results,  \* alert runs: what analyze_data returned or raised
  posted,        \* report runs: the outcome of each request the narrative call sent
  ai_analysis,   \* report runs: what _call_qianwen_api returned
  report_file,   \* report runs: the report file as generate_report left it
  qwen_outcome,  \* classification runs: what the classification request met
  classified,    \* classification runs: what ai_classify_customer returned
  active_filters,  \* table editor: the column filters selected in tab 1
  edited_df,       \* table editor: the rows of the data editor as the user left them
  shown_from,      \* table editor: the record each row of the editor was displayed from
  syncs            \* table editor: the presses of the sync button so far

fvars == <<df_in, df, step, passes, prev_out>>
avars == <<file, data, out>>
wvars == <<session_data, aliased, uploaded_files, range, saved>>
evars == <<now, called_on, emitted, alerts, prev_call, analysis_results>>
rvars == <<posted, ai_analysis, report_file, qwen_outcome, classified>>
tvars == <<active_filters, edited_df, shown_from, syncs>>
vars == <<df_in, df, step, passes, prev_out, file, data, out,
          session_data, aliased, uploaded_files, range, saved,
          now, called_on, emitted, alerts, prev_call, analysis_results,
          posted, ai_analysis, report_file, qwen_outcome, classified,
          active_filters, edited_df, shown_from, syncs>>

(***************************************************************************)
(* Bounds of the model.                                                    *)
(***************************************************************************)
MaxHeaders == 3
MaxRows == 2
MaxPasses == 2

(***************************************************************************)
(* Texts.                                                                  *)
(***************************************************************************)
\* src: str.lower() on the letters the headers of the model use
LowerChar(c) ==
  CASE c = "A" -> "a" [] c = "C" -> "c" [] c = "D" -> "d" [] c = "I" -> "i"
    [] c = "P" -> "p" [] c = "T" -> "t" [] OTHER -> c

lower(s) == [i \in 1..Len(s) |-> LowerChar(s[i])]

RECURSIVE lstrip(_)
lstrip(s) == IF s # <<>> /\ Head(s) = " " THEN lstrip(Tail(s)) ELSE s

RECURSIVE rstrip(_)
rstrip(s) ==
  IF s # <<>> /\ s[Len(s)] = " " THEN rstrip(SubSeq(s, 1, Len(s) - 1)) ELSE s

strip(s) == rstrip(lstrip(s))

\* Python's `k in s` on two texts
IsSubstr(k, s) ==
  \E i \in 0..(Len(s) - Len(k)) : SubSeq(s, i + 1, i + Len(k)) = k

SeqToSet(s) == {s[i] : i \in 1..Len(s)}

(***************************************************************************)
(* The canonical schema.                                                   *)
(***************************************************************************)
\* inquiry time (xun pan shi jian)
col_inquiry_time == <<"u8be2", "u76d8", "u65f6", "u95f4">>
\* contact method (zi xun fang shi)
col_contact_method == <<"u54a8", "u8be2", "u65b9", "u5f0f">>
\* follow-up grade (gen jin deng ji)
col_follow_up_grade == <<"u8ddf", "u8fdb", "u7b49", "u7ea7">>
\* customer name (ke hu ming cheng)
col_customer_name == <<"u5ba2", "u6237", "u540d", "u79f0">>
\* customer tier (ke hu ceng ji)
col_customer_tier == <<"u5ba2", "u6237", "u5c42", "u7ea7">>
\* continent (suo shu da zhou)
col_continent == <<"u6240", "u5c5e", "u5927", "u6d32">>
\* country (guo jia)
col_country == <<"u56fd", "u5bb6">>
\* product inquired (xun jia chan pin)
col_product == <<"u8be2", "u4ef7", "u4ea7", "u54c1">>
\* product id (chan pin ID)
col_product_id == <<"u4ea7", "u54c1", "I", "D">>
\* handler (gen jin ren)
col_handler == <<"u8ddf", "u8fdb", "u4eba">>
\* remark (bei zhu (shi dan yuan yin+gen jin ji hui dian))
col_remark == <<"u5907", "u6ce8", " ", "(", "u5931", "u5355", "u539f", "u56e0", "+", "u8ddf", "u8fdb", "u673a", "u4f1a", "u70b9", ")">>
\* last follow-up time (zui hou gen jin shi jian)
col_last_follow_up == <<"u6700", "u540e", "u8ddf", "u8fdb", "u65f6", "u95f4">>
\* source sheet (_lai yuan gong zuo biao), the bookkeeping column read_excel adds to every sheet
col_source_sheet == <<"_", "u6765", "u6e90", "u5de5", "u4f5c", "u8868">>

standard_columns ==
  << col_inquiry_time, col_contact_method, col_follow_up_grade,
     col_customer_name, col_customer_tier, col_continent, col_country,
     col_product, col_product_id, col_handler, col_remark,
     col_last_follow_up >>

\* the elif chain of _standardize_columns, top to bottom
keyword_groups ==
  << [field |-> col_inquiry_time,
      kws |-> {<<"u8be2", "u76d8">>, <<"u65f6", "u95f4">>, <<"i", "n", "q", "u", "i", "r", "y">>, <<"t", "i", "m", "e">>}],
     [field |-> col_contact_method,
      kws |-> {<<"u54a8", "u8be2">>, <<"u65b9", "u5f0f">>, <<"c", "o", "n", "t", "a", "c", "t">>, <<"m", "e", "t", "h", "o", "d">>}],
     [field |-> col_follow_up_grade,
      kws |-> {<<"u8ddf", "u8fdb">>, <<"u7b49", "u7ea7">>, <<"l", "e", "v", "e", "l">>, <<"g", "r", "a", "d", "e">>}],
     [field |-> col_customer_name,
      kws |-> {<<"u5ba2", "u6237">>, <<"u540d", "u79f0">>, <<"c", "u", "s", "t", "o", "m", "e", "r">>, <<"n", "a", "m", "e">>}],
     [field |-> col_customer_tier,
      kws |-> {<<"u5c42", "u7ea7">>, <<"t", "i", "e", "r">>, <<"c", "a", "t", "e", "g", "o", "r", "y">>}],
     [field |-> col_continent,
      kws |-> {<<"u5927", "u6d32">>, <<"c", "o", "n", "t", "i", "n", "e", "n", "t">>}],
     [field |-> col_country,
      kws |-> {<<"u56fd", "u5bb6">>, <<"c", "o", "u", "n", "t", "r", "y">>, <<"n", "a", "t", "i", "o", "n">>}],
     [field |-> col_product,
      kws |-> {<<"u4ea7", "u54c1">>, <<"p", "r", "o", "d", "u", "c", "t">>, <<"u8be2", "u4ef7">>}],
     [field |-> col_product_id,
      kws |-> {<<"i", "d">>, <<"u4ea7", "u54c1", "i", "d">>}],
     [field |-> col_handler,
      kws |-> {<<"u8ddf", "u8fdb", "u4eba">>, <<"f", "o", "l", "l", "o", "w", "e", "r">>, <<"h", "a", "n", "d", "l", "e", "r">>}],
     [field |-> col_remark,
      kws |-> {<<"u5907", "u6ce8">>, <<"r", "e", "m", "a", "r", "k">>, <<"n", "o", "t", "e">>}],
     [field |-> col_last_follow_up,
      kws |-> {<<"u6700", "u540e">>, <<"l", "a", "s", "t">>, <<"f", "o", "l", "l", "o", "w">>}] >>

(***************************************************************************)
(* Cells.                                                                  *)
(***************************************************************************)
\* None, NaN and NaT: what pd.isna() is true of
Null == [k |-> "null"]
Str(s) == [k |-> "str", s |-> s]
EmptyStr == Str(<<>>)
IsNull(c) == c.k = "null"

(***************************************************************************)
(* _standardize_columns.                                                   *)
(***************************************************************************)
\* any(keyword in col_lower for keyword in [...])
GroupMatches(g, col_lower) ==
  \E kw \in keyword_groups[g].kws : IsSubstr(kw, col_lower)

\* the branch of the elif chain a header takes: the first group whose keyword
\* test holds and whose field is not yet used; 0 when no branch is taken
TakenGroup(col, used) ==
  LET col_lower == strip(lower(col))
      ok == {g \in 1..Len(keyword_groups) :
               /\ GroupMatches(g, col_lower)
               /\ keyword_groups[g].field \notin used}
  IN IF ok = {} THEN 0 ELSE CHOOSE g \in ok : \A h \in ok : g <= h

\* the loop over df.columns: column_mapping as a sequence, entry i the new
\* label of column i, or <<>> when column i is not a key of the mapping
RECURSIVE MappingFrom(_, _, _)
MappingFrom(cols, i, used) ==
  IF i > Len(cols) THEN <<>>
  ELSE LET g == TakenGroup(cols[i], used)
       IN IF g = 0
          THEN <<(<<>>)>> \o MappingFrom(cols, i + 1, used)
          ELSE <<keyword_groups[g].field>>
                 \o MappingFrom(cols, i + 1, used \cup {keyword_groups[g].field})

column_mapping(cols) == MappingFrom(cols, 1, {})

\* df.rename(columns=column_mapping)
RenamedCols(cols) ==
  LET m == column_mapping(cols)
  IN [i \in 1..Len(cols) |-> IF m[i] = <<>> THEN cols[i] ELSE m[i]]

\* for col in self.standard_columns: if col not in df.columns: df[col] = None
MissingCols(cols) ==
  SelectSeq(standard_columns, LAMBDA c : c \notin SeqToSet(cols))

standardize_columns(d) ==
  LET renamed == RenamedCols(d.cols)
      missing == MissingCols(renamed)
  IN [cols |-> renamed \o missing,
      rows |-> [r \in 1..Len(d.rows) |->
                  d.rows[r] \o [j \in 1..Len(missing) |-> Null]]]

(***************************************************************************)
(* Calendar: a Timestamp is [day, sec, ns], day counted from 1970-01-01.   *)
(***************************************************************************)
PyInt(n) == [k |-> "int", n |-> n]
\* a float64 holding the whole number n
PyFloat(n) == [k |-> "float", n |-> n]
Ts(day, sec, ns) == [k |-> "ts", day |-> day, sec |-> sec, ns |-> ns]
IsNum(c) == c.k \in {"int", "float"}
\* no frame: self.data = None
NoFrame == [cols |-> <<>>, rows |-> <<>>, none |-> TRUE]
\* no file written yet
NoFile == [fmt |-> "none", sheets |-> {}]
\* the web session variables of a run without a web session
NoSession ==
  /\ session_data = NoFrame /\ aliased = FALSE /\ uploaded_files = <<>>
  /\ range = [lo |-> 0, hi |-> 0] /\ saved = NoFile

\* nothing called yet
NoResult == [k |-> "none"]
\* the alert variables of a run that calls neither get_smart_alerts nor
\* analyze_data
NoEngine ==
  /\ now = <<>> /\ called_on = NoFrame /\ emitted = <<>> /\ alerts = NoResult
  /\ prev_call = NoResult /\ analysis_results = NoResult
\* the report and classification variables of a run that calls neither
\* generate_report nor ai_classify_customer
NoReport ==
  /\ posted = <<>> /\ ai_analysis = NoResult /\ report_file = NoResult
  /\ qwen_outcome = NoResult /\ classified = NoResult
\* the table editor variables of a run without the table editor
NoEditor ==
  /\ active_filters = <<>> /\ edited_df = NoFrame /\ shown_from = <<>>
  /\ syncs = 0

\* the proleptic Gregorian date <<y, m, d>> of a day number
civil_from_days(z) ==
  LET zz == z + 719468
      era == zz \div 146097
      doe == zz - era * 146097
      yoe == (doe - doe \div 1460 + doe \div 36524 - doe \div 146096) \div 365
      doy == doe - (365 * yoe + yoe \div 4 - yoe \div 100)
      mp == (5 * doy + 2) \div 153
      d == doy - (153 * mp + 2) \div 5 + 1
      m == IF mp < 10 THEN mp + 3 ELSE mp - 9
      y == yoe + era * 400
  IN <<(IF m <= 2 THEN y + 1 ELSE y), m, d>>

\* the day number of the date y-m-d
days_from_civil(y, m, d) ==
  LET yy == IF m <= 2 THEN y - 1 ELSE y
      era == yy \div 400
      yoe == yy - era * 400
      doy == (153 * (IF m > 2 THEN m - 3 ELSE m + 9) + 2) \div 5 + d - 1
      doe == yoe * 365 + yoe \div 4 - yoe \div 100 + doy
  IN era * 146097 + doe - 719468

IsLeap(y) == (y % 4 = 0 /\ y % 100 # 0) \/ y % 400 = 0

DaysInMonth(y, m) ==
  IF m = 2 THEN (IF IsLeap(y) THEN 29 ELSE 28)
  ELSE IF m \in {4, 6, 9, 11} THEN 30 ELSE 31

Digits == <<"0", "1", "2", "3", "4", "5", "6", "7", "8", "9">>
DigitChar(n) == Digits[n + 1]
IsDigit(c) == \E i \in 1..10 : Digits[i] = c
DigitVal(c) == (CHOOSE i \in 1..10 : Digits[i] = c) - 1

\* the decimal digits of n >= 0, at least w of them (zero padded)
RECURSIVE Pad(_, _)
Pad(n, w) ==
  IF n < 10 /\ w <= 1 THEN <<DigitChar(n)>>
  ELSE Append(Pad(n \div 10, w - 1), DigitChar(n % 10))

\* the number a text of digits writes
RECURSIVE NumVal(_)
NumVal(s) ==
  IF s = <<>> THEN 0
  ELSE 10 * NumVal(SubSeq(s, 1, Len(s) - 1)) + DigitVal(s[Len(s)])

\* Timestamp.strftime('%Y<sep>%m<sep>%d')
strftime(t, sep) ==
  LET c == civil_from_days(t.day)
  IN Pad(c[1], 4) \o <<sep>> \o Pad(c[2], 2) \o <<sep>> \o Pad(c[3], 2)

\* the date a text of the shape YYYY?MM?DD writes (? one of / and -, the same
\* twice), as pd.to_datetime reads it; Null (NaT) for every other text of the
\* model: the empty text and texts without a digit
parse_date(s) ==
  IF /\ Len(s) = 10
     /\ s[5] \in {"/", "-"} /\ s[8] = s[5]
     /\ \A i \in {1, 2, 3, 4, 6, 7, 9, 10} : IsDigit(s[i])
  THEN LET y == NumVal(SubSeq(s, 1, 4))
           m == NumVal(SubSeq(s, 6, 7))
           d == NumVal(SubSeq(s, 9, 10))
       IN IF m \in 1..12 /\ d \in 1..DaysInMonth(y, m)
          THEN Ts(days_from_civil(y, m, d), 0, 0)
          ELSE Null
  ELSE Null

\* pd.to_datetime(x, errors='coerce') on one cell: a number counts the
\* nanoseconds since 1970-01-01 (here below one day of them)
to_datetime(c) ==
  CASE c.k = "ts" -> c
    [] c.k = "str" -> parse_date(c.s)
    [] IsNum(c) -> Ts(0, c.n \div 1000000000, c.n % 1000000000)
    [] OTHER -> Null

(***************************************************************************)
(* Frames.                                                                 *)
(***************************************************************************)
\* the positions of the columns labelled col
ColIdx(d, col) == {j \in 1..Len(d.cols) : d.cols[j] = col}
HasCol(d, col) == ColIdx(d, col) # {}
\* df[col] is a Series only when one column carries the label; with two it is
\* a frame, and .dtype or pd.to_datetime on it raises
OneCol(d, col) == Cardinality(ColIdx(d, col)) = 1
ColPos(d, col) == CHOOSE j \in ColIdx(d, col) : TRUE
ColCells(d, j) == [r \in 1..Len(d.rows) |-> d.rows[r][j]]

\* the frame with the cells of column j replaced through f
MapCol(d, j, f(_)) ==
  [d EXCEPT !.rows = [r \in 1..Len(d.rows) |->
                        [d.rows[r] EXCEPT ![j] = f(d.rows[r][j])]]]

(***************************************************************************)
(* _clean_data.                                                            *)
(***************************************************************************)
SerialThreshold == 25568

\* pd.to_datetime('1899-12-30')
ExcelEpoch == parse_date(<<"1", "8", "9", "9", "-", "1", "2", "-", "3", "0">>)

\* FromSerial with the serials counted from 1900-01-01
FromSerial1900(c) ==
  IF ~IsNull(c) /\ c.n > 0 THEN Ts(days_from_civil(1900, 1, 1) + c.n, 0, 0) ELSE Null

\* lambda x: pd.to_datetime('1899-12-30') + pd.Timedelta(days=x)
\*           if pd.notna(x) and x > 0 else None
FromSerial(c) ==
  IF ~IsNull(c) /\ c.n > 0 THEN Ts(ExcelEpoch.day + c.n, 0, 0) ELSE Null

\* df[col].dtype in ['float64', 'int64']
IsNumericCol(cells) == \A r \in 1..Len(cells) : IsNum(cells[r]) \/ IsNull(cells[r])

SeqMin(cells) ==
  LET ns == {cells[r].n : r \in {q \in 1..Len(cells) : IsNum(cells[q])}}
  IN CHOOSE x \in ns : \A y \in ns : x <= y

\* the body of the loop over time_columns for one column
CleanTimeCol(d, col) ==
  IF ~OneCol(d, col) THEN d
  ELSE LET j == ColPos(d, col)
           cells == ColCells(d, j)
           dates == SelectSeq(cells, LAMBDA c : ~IsNull(c))
       IN IF IsNumericCol(cells) /\ Len(dates) > 0 /\ SeqMin(cells) > SerialThreshold
          THEN MapCol(d, j, FromSerial)
          ELSE MapCol(d, j, to_datetime)

time_columns == <<col_inquiry_time, col_last_follow_up>>

\* df.fillna('')
fillna(d) ==
  [d EXCEPT !.rows = [r \in 1..Len(d.rows) |->
     [j \in 1..Len(d.rows[r]) |->
        IF IsNull(d.rows[r][j]) THEN EmptyStr ELSE d.rows[r][j]]]]

\* two cells pandas hashes alike: the same value, or the same number as an int
\* and as a float
SameCell(a, b) == a = b \/ (IsNum(a) /\ IsNum(b) /\ a.n = b.n)
SameRow(x, y) == \A j \in 1..Len(x) : SameCell(x[j], y[j])

\* df.drop_duplicates(): a row stays unless an earlier row equals it
RECURSIVE KeepFirst(_, _)
KeepFirst(rows, i) ==
  IF i > Len(rows) THEN <<>>
  ELSE (IF \E q \in 1..(i - 1) : SameRow(rows[q], rows[i])
        THEN <<>> ELSE <<rows[i]>>) \o KeepFirst(rows, i + 1)

\* drop_duplicates that drops nothing
keep_all_rows(d) == d

drop_duplicates(d) == [d EXCEPT !.rows = KeepFirst(d.rows, 1)]

\* the cleaning of the cells, before the duplicates go
clean_cells(d) ==
  fillna(CleanTimeCol(CleanTimeCol(d, time_columns[1]), time_columns[2]))

clean_data(d) == drop_duplicates(clean_cells(d))

(***************************************************************************)
(* _convert_date_format.                                                   *)
(***************************************************************************)
\* to_datetime, then strftime('%Y/%m/%d') where notna, then fillna('')
FormatDateCell(c) ==
  LET t == to_datetime(c)
  IN IF IsNull(t) THEN EmptyStr ELSE Str(strftime(t, "/"))

ConvertCol(d, col) ==
  IF ~OneCol(d, col) THEN d ELSE MapCol(d, ColPos(d, col), FormatDateCell)

date_columns == <<col_inquiry_time, col_last_follow_up>>

convert_date_format(d) ==
  ConvertCol(ConvertCol(d, date_columns[1]), date_columns[2])

(***************************************************************************)
(* Headers a sheet may carry.                                              *)
(***************************************************************************)
HeaderPool ==
  { <<"u8be2", "u76d8", "u65f6", "u95f4">>,
    <<"I", "n", "q", "u", "i", "r", "y", " ", "T", "i", "m", "e">>,
    <<"u6700", "u540e", "u8ddf", "u8fdb", "u65f6", "u95f4">>,
    <<"u4ea7", "u54c1", "I", "D">>,
    <<"u8be2", "u4ef7", "u4ea7", "u54c1">>,
    <<"u5ba2", "u6237", "u540d", "u79f0">>,
    <<"u5ba2", "u6237", "u5c42", "u7ea7">>,
    <<" ", "C", "o", "u", "n", "t", "r", "y", " ">>,
    <<"u8ddf", "u8fdb", "u4eba">>,
    <<"u5e8f", "u53f7">>,
    col_source_sheet,
    <<"P", "a", "i", "d">> }

\* the ordered header lists of up to MaxHeaders different headers
RECURSIVE HeaderLists(_)
HeaderLists(n) ==
  IF n = 0 THEN {<<>>}
  ELSE LET shorter == HeaderLists(n - 1)
       IN shorter \cup
          {Append(l, h) : l \in {x \in shorter : Len(x) = n - 1}, h \in HeaderPool}

DistinctHeaderLists ==
  {l \in HeaderLists(MaxHeaders) : Cardinality(SeqToSet(l)) = Len(l)}

(***************************************************************************)
(* SpecNorm: _standardize_columns applied to a one-row frame with any      *)
(* header list.                                                            *)
(***************************************************************************)
InitNorm ==
  /\ \E l \in DistinctHeaderLists :
       df_in = [cols |-> l, rows |-> << [j \in 1..Len(l) |-> Str(<<"v">>)] >>]
  /\ df = df_in
  /\ step = "raw"
  /\ passes = 0
  /\ prev_out = NoFrame
  /\ file = <<>> /\ data = NoFrame /\ out = NoFile
  /\ NoSession
  /\ NoEngine /\ NoReport /\ NoEditor

Standardize ==
  /\ step = "raw"
  /\ df' = standardize_columns(df)
  /\ step' = "standardized"
  /\ UNCHANGED <<df_in, passes, prev_out, avars, wvars, evars, rvars, tvars>>

NextNorm == Standardize

SpecNorm == InitNorm /\ [][NextNorm]_vars

(***************************************************************************)
(* Sheets as pd.read_excel returns them.                                   *)
(***************************************************************************)
\* pd.read_excel: a column of numbers with an empty cell is float64 (NaN),
\* a column of numbers alone is int64; any other column keeps its objects
InferCol(d, j) ==
  LET cells == ColCells(d, j)
  IN IF IsNumericCol(cells) /\ \E r \in 1..Len(cells) : IsNull(cells[r])
     THEN MapCol(d, j, LAMBDA c : IF IsNum(c) THEN PyFloat(c.n) ELSE c)
     ELSE d

RECURSIVE InferFrom(_, _)
InferFrom(d, j) == IF j > Len(d.cols) THEN d ELSE InferFrom(InferCol(d, j), j + 1)

infer_dtypes(d) == InferFrom(d, 1)

\* the day of 2023-03-15, the date the sheets of the model are about
Day0 == days_from_civil(2023, 3, 15)

\* what a date column of a sheet holds: serial numbers, texts or datetimes
DateCells(mode) ==
  CASE mode = "serial" ->
         {PyInt(1), PyInt(SerialThreshold + 1), PyInt(Day0 - ExcelEpoch.day), Null}
    [] mode = "text" ->
         {Str(strftime(Ts(Day0, 0, 0), "-")), Str(<<"u5f85", "u5b9a">>), Null}
    [] mode = "datetime" ->
         {Ts(Day0, 9 * 3600, 0), Ts(Day0, 17 * 3600, 0), Ts(Day0 + 1, 0, 0), Null}

\* a product id typed as a number, or left empty
ProductIdCells == {PyInt(1234567890), Null}

\* the product header comes before the product id header: a header holding
\* the word for product is taken as the product column while that is free
SheetHeaders == <<col_inquiry_time, col_customer_name, col_product, col_product_id>>

SheetRows(mode) ==
  {<<t, Str(<<"A">>), Str(<<"P">>), p>> : t \in DateCells(mode), p \in ProductIdCells}

RECURSIVE RowLists(_, _)
RowLists(S, n) ==
  IF n = 0 THEN {<<>>}
  ELSE LET shorter == RowLists(S, n - 1)
       IN shorter \cup {Append(l, x) : l \in {y \in shorter : Len(y) = n - 1}, x \in S}

Sheets ==
  {infer_dtypes([cols |-> SheetHeaders, rows |-> rs]) :
     rs \in UNION {RowLists(SheetRows(mode), MaxRows) \ {<<>>} :
                     mode \in {"serial", "text", "datetime"}}}

(***************************************************************************)
(* SpecClean: the Data Cleaner (_clean_data, then _convert_date_format)    *)
(* applied to a standardized sheet, and applied again to its own output.   *)
(***************************************************************************)
InitClean ==
  /\ \E sh \in Sheets : df_in = standardize_columns(sh)
  /\ df = df_in
  /\ step = "standardized"
  /\ passes = 0
  /\ prev_out = NoFrame
  /\ file = <<>> /\ data = NoFrame /\ out = NoFile
  /\ NoSession
  /\ NoEngine /\ NoReport /\ NoEditor

CleanData ==
  /\ step \in {"standardized", "formatted"}
  /\ passes < MaxPasses
  /\ df_in' = df
  /\ df' = clean_data(df)
  /\ step' = "cleaned"
  /\ passes' = passes + 1
  /\ prev_out' = IF step = "formatted" THEN df ELSE prev_out
  /\ UNCHANGED <<avars, wvars, evars, rvars, tvars>>

ConvertDateFormat ==
  /\ step = "cleaned"
  /\ df' = convert_date_format(df)
  /\ step' = "formatted"
  /\ UNCHANGED <<df_in, passes, prev_out, avars, wvars, evars, rvars, tvars>>

NextClean == CleanData \/ ConvertDateFormat

SpecClean == InitClean /\ [][NextClean]_vars

(***************************************************************************)
(* read_excel.                                                             *)
(***************************************************************************)
\* df_sheet['_<source sheet>'] = sheet
WithSourceSheet(sh) ==
  [cols |-> Append(sh.frame.cols, col_source_sheet),
   rows |-> [r \in 1..Len(sh.frame.rows) |-> Append(sh.frame.rows[r], Str(sh.name))]]

\* pd.concat(all_dfs, ignore_index=True) of sheets with the same headers
RECURSIVE ConcatRows(_)
ConcatRows(frames) ==
  IF frames = <<>> THEN <<>> ELSE Head(frames).rows \o ConcatRows(Tail(frames))

concat(frames) ==
  infer_dtypes([cols |-> frames[1].cols, rows |-> ConcatRows(frames)])

SheetNames(wb) == {wb[i].name : i \in 1..Len(wb)}

\* the frame read_excel leaves in self.data; sheet_name <<>> stands for None
read_excel(wb, sheet_name) ==
  LET raw == IF sheet_name # <<>>
             THEN (CHOOSE sh \in SeqToSet(wb) : sh.name = sheet_name).frame
             ELSE concat([i \in 1..Len(wb) |-> WithSourceSheet(wb[i])])
  IN convert_date_format(clean_data(standardize_columns(raw)))

(***************************************************************************)
(* export_data.                                                            *)
(***************************************************************************)
\* row_data.get(col_name, '')
GetCell(d, row, col) == IF HasCol(d, col) THEN row[ColPos(d, col)] ELSE EmptyStr

\* the date branches of _write_data: a Timestamp, or a text that parses, is
\* written as '%Y-%m-%d'; anything else as it is
WriteDate(c) ==
  IF IsNull(c) \/ c = EmptyStr THEN c
  ELSE IF c.k = "ts" THEN Str(strftime(c, "-"))
  ELSE IF c.k = "str" /\ ~IsNull(parse_date(c.s)) THEN Str(strftime(parse_date(c.s), "-"))
  ELSE c

\* the product-id branch of _write_data: str(int(cell_value)) for a number
WriteProductId(c) == IF IsNum(c) THEN Str(Pad(c.n, 1)) ELSE c

WriteCell(col, c) ==
  IF col \in {col_inquiry_time, col_last_follow_up} THEN WriteDate(c)
  ELSE IF col = col_product_id THEN WriteProductId(c)
  ELSE c

\* _write_data: one written row per data row, the standard columns only
write_data(d, rows) ==
  [r \in 1..Len(rows) |->
     [j \in 1..Len(standard_columns) |->
        WriteCell(standard_columns[j], GetCell(d, rows[r], standard_columns[j]))]]

\* extract_month: '%Y<year>%m<month>' or '<unknown>'
extract_month(c) ==
  LET t == to_datetime(c)
  IN IF IsNull(t) THEN <<"u672a", "u77e5">>
     ELSE LET ymd == civil_from_days(t.day)
          IN Pad(ymd[1], 4) \o <<"u5e74">> \o Pad(ymd[2], 2) \o <<"u6708">>

\* the text DataFrame.to_csv writes for a cell
ClockText(sec) ==
  Pad(sec \div 3600, 2) \o <<":">> \o Pad((sec % 3600) \div 60, 2)
    \o <<":">> \o Pad(sec % 60, 2)

CsvText(c) ==
  CASE c.k = "str" -> c.s
    [] c.k = "int" -> Pad(c.n, 1)
    [] c.k = "float" -> Pad(c.n, 1) \o <<".", "0">>
    [] c.k = "ts" -> IF c.sec = 0 /\ c.ns = 0 THEN strftime(c, "-")
                     ELSE strftime(c, "-") \o <<" ">> \o ClockText(c.sec)
    [] OTHER -> <<>>

\* the sheet title of an export that is not grouped by month
SheetTitle == <<"u5ba2", "u6237", "u8ddf", "u8fdb", "u8868">>

ExcelSheet(d, title, rows) ==
  [title |-> title, cols |-> standard_columns, rows |-> write_data(d, rows)]

\* the file export_data writes (the chart sheet, which holds no record, is
\* left out)
export_data(d, format, group_by_month) ==
  IF format = "excel"
  THEN IF group_by_month /\ HasCol(d, col_inquiry_time)
       THEN LET j == ColPos(d, col_inquiry_time)
                months == {extract_month(d.rows[r][j]) : r \in 1..Len(d.rows)}
            IN [fmt |-> "excel",
                sheets |-> {ExcelSheet(d, m,
                              SelectSeq(d.rows, LAMBDA row : extract_month(row[j]) = m)) :
                            m \in months}]
       ELSE [fmt |-> "excel", sheets |-> {ExcelSheet(d, SheetTitle, d.rows)}]
  ELSE [fmt |-> "csv",
        sheets |-> {[title |-> <<>>, cols |-> d.cols,
                     rows |-> [r \in 1..Len(d.rows) |->
                                 [j \in 1..Len(d.cols) |-> Str(CsvText(d.rows[r][j]))]]]}]

(***************************************************************************)
(* Workbooks on disk: up to MaxRows rows in all, in one or more sheets     *)
(* with the same headers and the same kind of date column.                 *)
(***************************************************************************)
\* two date cells of each kind are enough for a workbook
FileDateCells(mode) ==
  CASE mode = "serial" -> {PyInt(Day0 - ExcelEpoch.day), Null}
    [] mode = "text" -> {Str(strftime(Ts(Day0, 0, 0), "-")), Str(<<"u5f85", "u5b9a">>)}
    [] mode = "datetime" -> {Ts(Day0, 9 * 3600, 0), Ts(Day0, 17 * 3600, 0)}

FileRows(mode) ==
  {<<t, Str(<<"A">>), Str(<<"P">>), p>> :
     t \in FileDateCells(mode), p \in ProductIdCells}

\* the ways to cut up to n rows into a sequence of sheets, none empty
RECURSIVE SheetCuts(_, _)
SheetCuts(S, n) ==
  {<<>>} \cup
  UNION {{<<rl>> \o rest : rest \in SheetCuts(S, n - Len(rl))} :
           rl \in RowLists(S, n) \ {<<>>}}

Workbooks ==
  UNION {{[i \in 1..Len(cut) |->
             [name |-> <<DigitChar(i)>>,
              frame |-> infer_dtypes([cols |-> SheetHeaders, rows |-> cut[i]])]] :
            cut \in SheetCuts(FileRows(mode), MaxRows) \ {<<>>}} :
         mode \in {"serial", "text", "datetime"}}

(***************************************************************************)
(* Spec: the analyzer on the command line: read_excel of a workbook, then  *)
(* exports of self.data.                                                   *)
(***************************************************************************)
Init ==
  /\ file \in Workbooks
  /\ data = NoFrame
  /\ out = NoFile
  /\ df_in = NoFrame /\ df = NoFrame /\ step = "none" /\ passes = 0
  /\ prev_out = NoFrame
  /\ NoSession
  /\ NoEngine /\ NoReport /\ NoEditor

ReadExcel ==
  /\ \E sheet_name \in {<<>>} \cup SheetNames(file) :
       data' = read_excel(file, sheet_name)
  /\ UNCHANGED <<file, out, fvars, wvars, evars, rvars, tvars>>

\* export_data(..., 'excel', group_by_month): the helper month column is
\* added to self.data and dropped again before the file is saved
ExportExcel ==
  /\ data # NoFrame
  /\ \E group_by_month \in BOOLEAN : out' = export_data(data, "excel", group_by_month)
  /\ UNCHANGED <<file, data, fvars, wvars, evars, rvars, tvars>>

ExportCsv ==
  /\ data # NoFrame
  /\ out' = export_data(data, "csv", FALSE)
  /\ UNCHANGED <<file, data, fvars, wvars, evars, rvars, tvars>>

Next == ReadExcel \/ ExportExcel \/ ExportCsv

Spec == Init /\ [][Next]_vars

(***************************************************************************)
(* The web session (ali_online.py).  One action is one rerun of the        *)
(* script, top to bottom, as Streamlit runs it on every interaction.       *)
(***************************************************************************)
IsEmpty(d) == d = NoFrame \/ Len(d.rows) = 0

\* the value a local variable of the script is bound to: Only({e(x) : x \in {v}})
\* is e with x standing for the value v
Only(S) == CHOOSE x \in S : TRUE

\* the cell of a row under a label, NaN when the frame has no such column
CellAt(d, row, col) == IF HasCol(d, col) THEN row[ColPos(d, col)] ELSE Null

\* pd.concat([a, b], ignore_index=True): the union of the columns, a's first
concat_frames(a, b) ==
  LET cols == a.cols \o SelectSeq(b.cols, LAMBDA c : ~HasCol(a, c))
      Widen(d) == [r \in 1..Len(d.rows) |->
                     [j \in 1..Len(cols) |-> CellAt(d, d.rows[r], cols[j])]]
  IN [cols |-> cols, rows |-> Widen(a) \o Widen(b)]

dedup_key == <<col_customer_name, col_inquiry_time, col_product>>

\* dedup_cols = [c for c in [...] if c in combined.columns]
dedup_cols(d) == SelectSeq(dedup_key, LAMBDA c : HasCol(d, c))

SameKey(d, x, y) ==
  \A i \in 1..Len(dedup_cols(d)) :
     SameCell(CellAt(d, x, dedup_cols(d)[i]), CellAt(d, y, dedup_cols(d)[i]))

\* combined.drop_duplicates(subset=dedup_cols, keep='last')
RECURSIVE KeepLast(_, _)
KeepLast(d, i) ==
  IF i > Len(d.rows) THEN <<>>
  ELSE (IF \E q \in (i + 1)..Len(d.rows) : SameKey(d, d.rows[i], d.rows[q])
        THEN <<>> ELSE <<d.rows[i]>>) \o KeepLast(d, i + 1)

drop_duplicates_last(d) ==
  IF dedup_cols(d) = <<>> THEN d ELSE [d EXCEPT !.rows = KeepLast(d, 1)]

\* the records the uploaded workbooks are made of
WebDay(n) == Str(strftime(Ts(Day0 + n, 0, 0), "-"))
WebRow(t) == <<t, Str(<<"A">>), Str(<<"P">>), PyInt(1234567890)>>
WebFile(rows) ==
  << [name |-> <<"1">>,
      frame |-> infer_dtypes([cols |-> SheetHeaders, rows |-> rows])] >>

WebFiles ==
  { WebFile(<<WebRow(WebDay(0))>>),
    WebFile(<<WebRow(Str(<<"u5f85", "u5b9a">>))>>) }

\* analyzer.read_excel(temp_path) of each workbook of the pool
UploadFrames == [f \in WebFiles |-> read_excel(f, <<>>)]

\* the loop over uploaded_files: read, merge into original, de-duplicate
RECURSIVE MergeUploads(_, _, _)
MergeUploads(original, ups, i) ==
  IF i > Len(ups) THEN original
  ELSE Only({MergeUploads(deduped, ups, i + 1) :
               deduped \in {drop_duplicates_last(combined) :
                 combined \in {IF ~IsEmpty(original)
                               THEN concat_frames(original, UploadFrames[ups[i]])
                               ELSE UploadFrames[ups[i]]}}})

\* data['<inquiry time>'] = pd.to_datetime(data['<inquiry time>'], errors='coerce')
InquiryToDatetime(d) ==
  IF d # NoFrame /\ OneCol(d, col_inquiry_time)
  THEN MapCol(d, ColPos(d, col_inquiry_time), to_datetime)
  ELSE d

\* the sidebar import: original is a copy of analyzer.data; the merged frame
\* becomes both analyzer.data and session data, one object
SidebarImport(s, ups) ==
  Only({[s EXCEPT !.an = merged, !.sess = merged, !.same = TRUE] :
          merged \in {InquiryToDatetime(original) :
            original \in {MergeUploads(s.an, ups, 1)}}})

\* filter_by_time's mask: start 00:00 <= t <= end 23:59:59.999999; NaT is out
InRange(c, rng) == c.k = "ts" /\ rng.lo <= c.day /\ c.day <= rng.hi

\* comparing a column that holds a text with a Timestamp raises, and
\* filter_by_time then returns df itself
FilterReturnsSelf(d) ==
  \/ IsEmpty(d)
  \/ ~OneCol(d, col_inquiry_time)
  \/ \E r \in 1..Len(d.rows) : d.rows[r][ColPos(d, col_inquiry_time)].k \notin {"ts", "null"}

filter_by_time(d, rng) ==
  IF FilterReturnsSelf(d) THEN d
  ELSE [d EXCEPT !.rows =
          SelectSeq(d.rows, LAMBDA row : InRange(row[ColPos(d, col_inquiry_time)], rng))]

\* the helper month column of export_data
col_month == <<"_", "u6708", "u4efd">>

\* self.data['_<month>'] = self.data['<inquiry time>'].apply(extract_month)
with_month(d) ==
  LET j == ColPos(d, col_inquiry_time)
  IN IF HasCol(d, col_month)
     THEN [d EXCEPT !.rows = [r \in 1..Len(d.rows) |->
             [d.rows[r] EXCEPT ![ColPos(d, col_month)] = Str(extract_month(d.rows[r][j]))]]]
     ELSE [cols |-> Append(d.cols, col_month),
           rows |-> [r \in 1..Len(d.rows) |->
                       Append(d.rows[r], Str(extract_month(d.rows[r][j])))]]

\* self.data.drop(columns=['_<month>'])
without_month(d) ==
  LET keep == {j \in 1..Len(d.cols) : d.cols[j] # col_month}
      Pick(x) == SelectSeq([j \in 1..Len(x) |-> <<j, x[j]>>], LAMBDA p : p[1] \in keep)
      Strip(x) == [j \in 1..Len(Pick(x)) |-> Pick(x)[j][2]]
  IN [cols |-> Strip(d.cols), rows |-> [r \in 1..Len(d.rows) |-> Strip(d.rows[r])]]

\* the save button: analyzer.data = session data, then
\* export_data("saved_data.xlsx", 'excel', group_by_month=True), which adds
\* the month column to that one object and rebinds analyzer.data to a copy
\* without it
SaveAll(s) ==
  IF HasCol(s.sess, col_inquiry_time)
  THEN Only({[s EXCEPT !.an = without_month(grouped),
                       !.sess = grouped,
                       !.same = FALSE,
                       !.saved = export_data(s.sess, "excel", TRUE)] :
               grouped \in {with_month(s.sess)}})
  ELSE [s EXCEPT !.an = s.sess, !.same = TRUE,
                 !.saved = export_data(s.sess, "excel", TRUE)]

\* tab 1, the export button: analyzer.data = filtered, then
\* export_data(temp_file, format, group_by_month=False); not set back
ExportFiltered(s, rng, format) ==
  Only({[s EXCEPT !.an = filtered,
                  !.same = FilterReturnsSelf(s.sess),
                  !.out = export_data(filtered, format, FALSE)] :
          filtered \in {filter_by_time(s.sess, rng)}})

\* tabs 2 and 4 on every rerun: analyzer.data = filtered, the charts and the
\* alerts are computed, analyzer.data = original
ChartsAndAlerts(s, rng) ==
  Only({IF IsEmpty(s.sess) \/ IsEmpty(filtered) THEN s
        ELSE [[s EXCEPT !.an = filtered] EXCEPT !.an = s.an] :
          filtered \in {filter_by_time(s.sess, rng)}})

\* one rerun of the script with the widgets at ups and rng and button pressed
Script(ups, rng, button) ==
  Only({ChartsAndAlerts(exported, rng) :
    exported \in {IF button \in {"excel", "csv"} /\ ~IsEmpty(saved_.sess)
                  THEN ExportFiltered(saved_, rng, button) ELSE saved_ :
      saved_ \in {IF button = "save" /\ ~IsEmpty(imported.sess)
                  THEN SaveAll(imported) ELSE imported :
        imported \in {IF ups # <<>> THEN SidebarImport(start, ups) ELSE start :
          start \in {[sess |-> session_data, an |-> data, same |-> aliased,
                      out |-> out, saved |-> saved]}}}}})

Rerun(ups, rng, button) ==
  \E s \in {Script(ups, rng, button)} :
     /\ session_data' = s.sess
     /\ data' = s.an
     /\ aliased' = s.same
     /\ out' = s.out
     /\ saved' = s.saved
     /\ uploaded_files' = ups
     /\ range' = rng
     /\ UNCHANGED <<file, fvars, evars, rvars, tvars>>

MaxUploads == 1

RECURSIVE Uploads(_)
Uploads(n) ==
  IF n = 0 THEN {<<>>}
  ELSE LET shorter == Uploads(n - 1)
       IN shorter \cup
          {Append(l, f) : l \in {x \in shorter : Len(x) = n - 1}, f \in WebFiles}

Ranges ==
  { [lo |-> Day0, hi |-> Day0 + 1],
    [lo |-> Day0 + 1, hi |-> Day0 + 1] }

InitWeb ==
  /\ session_data = NoFrame /\ data = NoFrame /\ aliased = FALSE
  /\ uploaded_files = <<>>
  /\ range = [lo |-> Day0, hi |-> Day0 + 1]
  /\ saved = NoFile /\ out = NoFile /\ file = <<>>
  /\ df_in = NoFrame /\ df = NoFrame /\ step = "none" /\ passes = 0
  /\ prev_out = NoFrame
  /\ NoEngine /\ NoReport /\ NoEditor

\* the user adds files to, or removes files from, the uploader
UploadFiles ==
  \E ups \in Uploads(MaxUploads) : ups # uploaded_files /\ Rerun(ups, range, "none")

\* the user picks other dates in the sidebar
SetRange == \E rng \in Ranges : rng # range /\ Rerun(uploaded_files, rng, "none")

\* the save button is drawn only when there is session data
ClickSave == ~IsEmpty(session_data) /\ Rerun(uploaded_files, range, "save")

\* tab 1 and its export button are drawn only when there is session data
ClickExport ==
  /\ ~IsEmpty(session_data)
  /\ \E format \in {"excel", "csv"} : Rerun(uploaded_files, range, format)

NextWeb == UploadFiles \/ SetRange \/ ClickSave \/ ClickExport

SpecWeb == InitWeb /\ [][NextWeb]_vars

(***************************************************************************)
(* get_smart_alerts and its six detectors.  An alert is a record of the    *)
(* fields the code puts in its dict, the rendered texts left out.          *)
(***************************************************************************)
\* str(x) of a remark cell: a text is itself, a missing value reads 'nan'
str_of(c) == IF c.k = "str" THEN c.s ELSE <<"n", "a", "n">>

\* row.get(col, default)
row_get(d, row, col, default) ==
  IF HasCol(d, col) THEN row[ColPos(d, col)] ELSE default

\* the default customer name and country
unknown == Str(<<"u672a", "u77e5">>)

RECURSIVE Flatten(_)
Flatten(ss) == IF ss = <<>> THEN <<>> ELSE Head(ss) \o Flatten(Tail(ss))

\* _check_high_value_customers: the keywords, in the order they are tried
high_value_keywords ==
  << <<"u81ea", "u6709", "u8bbe", "u8ba1", "u56fe">>,
     <<"u5b9a", "u5236", "u54c1", "u724c">>,
     <<"u9996", "u5355", "1", "0", "0", "u4ef6">>,
     <<"u9996", "u5355", "8", "0", "u4ef6">>,
     <<"u9996", "u5355", "5", "0", "u4ef6">>,
     <<"u5b98", "u7f51">>,
     <<"u7ebf", "u4e0a", "u5e97", "u94fa">>,
     <<"O", "E", "M">>,
     <<"u54c1", "u724c", "u5b9a", "u5236">>,
     <<"u5927", "u5355">>,
     <<"u957f", "u671f", "u5408", "u4f5c">>,
     <<"w", "h", "o", "l", "e", "s", "a", "l", "e">>,
     <<"b", "u", "l", "k", " ", "o", "r", "d", "e", "r">>,
     <<"b", "r", "a", "n", "d">>,
     <<"c", "u", "s", "t", "o", "m">>,
     <<"p", "r", "i", "v", "a", "t", "e", " ", "l", "a", "b", "e", "l">> >>

\* _check_low_quality_inquiries: the keywords, in the order they are tried
low_quality_keywords ==
  << <<"u9493", "u9c7c">>,
     <<"u65b0", "u6ce8", "u518c", "u7528", "u6237", "u672a", "u8bfb">>,
     <<"u4fc3", "u9500", "u5546">>,
     <<"u4e00", "u53e5", "u8bdd", "u8be2", "u76d8">>,
     <<"u4e0d", "u5bf9", "u53e3">>,
     <<"u4e2a", "u4eba", "u4e70", "u5bb6">>,
     <<"u5783", "u573e", "u8be2", "u76d8">>,
     <<"u65e0", "u6548", "u8be2", "u76d8">>,
     <<"u8bc8", "u9a97">>,
     <<"u9a97", "u5b50">> >>

\* for keyword in keywords: if keyword.lower() in remark: ... break
\* the index of the keyword that breaks the loop, 0 when none does
FirstKeyword(keywords, remark) ==
  LET hit == {k \in 1..Len(keywords) : IsSubstr(lower(keywords[k]), remark)}
  IN IF hit = {} THEN 0 ELSE CHOOSE k \in hit : \A h \in hit : k <= h

\* str(row.get(remark column, '')).lower()
remark_of(d, row) == lower(str_of(row_get(d, row, col_remark, EmptyStr)))

\* self.data[self.data[col] == text]
RowsWhere(d, col, text) ==
  SelectSeq(d.rows, LAMBDA row : row[ColPos(d, col)] = Str(text))

\* the loop over the rows: one alert for each remark with a keyword
opportunities(d) ==
  LET opportunity(row) ==
        LET k == FirstKeyword(high_value_keywords, remark_of(d, row))
        IN IF k = 0 THEN <<>>
           ELSE << [type |-> "high_value_opportunity", priority |-> "high",
                    customer_name |-> row_get(d, row, col_customer_name, unknown),
                    country |-> row_get(d, row, col_country, unknown),
                    keyword |-> high_value_keywords[k]] >>
  IN Flatten([r \in 1..Len(d.rows) |-> opportunity(d.rows[r])])

\* x_level_customers.head(5): one alert for each
level_upgrades(d) ==
  LET x_level_customers ==
        IF HasCol(d, col_follow_up_grade)
        THEN RowsWhere(d, col_follow_up_grade, <<"X">>) ELSE <<>>
      first5 == SubSeq(x_level_customers, 1,
                       IF Len(x_level_customers) < 5 THEN Len(x_level_customers) ELSE 5)
  IN [i \in 1..Len(first5) |->
        [type |-> "level_upgraded", priority |-> "high",
         customer_name |-> row_get(d, first5[i], col_customer_name, unknown),
         level |-> <<"X">>]]

\* a detector that looks at the grades even without a remark column
check_grades_without_remarks(d) ==
  (IF HasCol(d, col_remark) THEN opportunities(d) ELSE <<>>) \o level_upgrades(d)

check_high_value_customers(d) ==
  IF ~HasCol(d, col_remark) THEN <<>>
  ELSE opportunities(d) \o level_upgrades(d)

check_low_quality_inquiries(d) ==
  IF ~HasCol(d, col_remark) THEN <<>>
  ELSE
    LET warning(row) ==
          IF FirstKeyword(low_quality_keywords, remark_of(d, row)) = 0 THEN <<>>
          ELSE << [type |-> "low_quality_warning", priority |-> "low",
                   customer_name |-> row_get(d, row, col_customer_name, unknown),
                   country |-> row_get(d, row, col_country, unknown)] >>
        warnings == Flatten([r \in 1..Len(d.rows) |-> warning(d.rows[r])])
        low_quality_count == Len(warnings)
    IN warnings
       \o (IF low_quality_count > 0
           THEN << [type |-> "low_quality_summary", priority |-> "medium",
                    count |-> low_quality_count] >>
           ELSE <<>>)

\* pd.to_datetime(x) without errors='coerce': an empty text is NaT, a text
\* that is no date raises
Raises == [k |-> "raise"]
to_datetime_strict(c) ==
  IF c.k = "str" /\ c.s # <<>> /\ parse_date(c.s) = Null THEN Raises
  ELSE to_datetime(c)

\* (a - b).days: the whole days from b to a, rounded down
days_between(a, b) ==
  a.day - b.day
    - (IF a.sec < b.sec \/ (a.sec = b.sec /\ a.ns < b.ns) THEN 1 ELSE 0)

\* if days_overdue > 5
is_overdue(days_overdue) == days_overdue > 5

\* a priority that is high from the seventh day on
high_from_day_7(days_overdue) == IF days_overdue >= 7 THEN "high" ELSE "medium"

\* 'high' if days_overdue > 7 else 'medium'
unfollow_priority(days_overdue) == IF days_overdue > 7 THEN "high" ELSE "medium"

check_long_term_unfollow(d, current_date) ==
  IF ~HasCol(d, col_last_follow_up) THEN <<>>
  ELSE
    LET unfollow(row) ==
          LET last_followup == row_get(d, row, col_last_follow_up, Null)
              level == row_get(d, row, col_follow_up_grade, EmptyStr)
              last_date == to_datetime_strict(last_followup)
          IN IF /\ ~IsNull(last_followup)
                /\ level \notin {Str(<<"X">>), Str(<<"A">>)}
                /\ last_date.k = "ts"
                /\ is_overdue(days_between(current_date, last_date))
             THEN << [type |-> "long_term_unfollow",
                      priority |-> unfollow_priority(days_between(current_date, last_date)),
                      customer_name |-> row_get(d, row, col_customer_name, unknown),
                      days_overdue |-> days_between(current_date, last_date)] >>
             ELSE <<>>
        unread(row) ==
          LET remark == remark_of(d, row)
          IN IF /\ IsSubstr(<<"u672a", "u8bfb">>, remark)
                /\ \/ IsSubstr(<<"u6837", "u54c1">>, remark)
                   \/ IsSubstr(<<"u5174", "u8da3">>, remark)
             THEN << [type |-> "unread_message", priority |-> "medium",
                      customer_name |-> row_get(d, row, col_customer_name, unknown)] >>
             ELSE <<>>
    IN Flatten([r \in 1..Len(d.rows) |-> unfollow(d.rows[r])])
       \o (IF HasCol(d, col_remark)
           THEN Flatten([r \in 1..Len(d.rows) |-> unread(d.rows[r])])
           ELSE <<>>)

\* the order a stable ascending sort by integer keys puts the positions in
StableOrder(keys) ==
  LET n == Len(keys)
      rank(i) == Cardinality({j \in 1..n : \/ keys[j] < keys[i]
                                            \/ (keys[j] = keys[i] /\ j < i)}) + 1
  IN [p \in 1..n |-> CHOOSE i \in 1..n : rank(i) = p]

\* the values of a sequence, each once, in the order they first appear
RECURSIVE unique(_)
unique(cells) ==
  IF cells = <<>> THEN <<>>
  ELSE LET rest == unique(SubSeq(cells, 1, Len(cells) - 1))
           last == cells[Len(cells)]
       IN IF \E i \in 1..Len(rest) : rest[i] = last THEN rest ELSE Append(rest, last)

\* Series.value_counts(): the values that are not missing with their counts,
\* the most frequent first, equal counts in the order they first appear
value_counts(cells) ==
  LET values == SelectSeq(unique(cells), LAMBDA c : ~IsNull(c))
      count(v) == Cardinality({r \in 1..Len(cells) : cells[r] = v})
      order == StableOrder([i \in 1..Len(values) |-> 0 - count(values[i])])
  IN [p \in 1..Len(values) |->
        [value |-> values[order[p]], count |-> count(values[order[p]])]]

\* Series.nunique()
nunique(cells) == Len(value_counts(cells))

\* the cells of a column of some rows of frame d
CellsOf(d, rows, col) == [r \in 1..Len(rows) |-> rows[r][ColPos(d, col)]]

\* t - timedelta(days=n)
minus_days(t, n) == Ts(t.day - n, t.sec, t.ns)
\* a >= b and a < b on timestamps
ts_ge(a, b) ==
  \/ a.day > b.day
  \/ a.day = b.day /\ (a.sec > b.sec \/ (a.sec = b.sec /\ a.ns >= b.ns))
ts_lt(a, b) == ~ts_ge(a, b)

\* pd.to_datetime(self.data[inquiry time column]) raises: some cell holds a
\* text that is no date
InquiryTimeRaises(d) ==
  \E r \in 1..Len(d.rows) :
     to_datetime_strict(d.rows[r][ColPos(d, col_inquiry_time)]) = Raises

\* self.data[pd.to_datetime(self.data[inquiry time column]) >= since]:
\* a comparison with NaT is False
RowsSince(d, since) ==
  SelectSeq(d.rows, LAMBDA row :
    LET t == to_datetime_strict(row[ColPos(d, col_inquiry_time)])
    IN t.k = "ts" /\ ts_ge(t, since))

\* what a detector hands back: its alerts, or the exception it raised
Returned(l) == [ok |-> TRUE, alerts |-> l]
Raised(exc) == [ok |-> FALSE, exc |-> exc]

\* now4a and now4b are what the two datetime.now() calls of the detector return
check_regional_trends(d, now4a, now4b) ==
  IF ~HasCol(d, col_country) \/ ~HasCol(d, col_inquiry_time) THEN Returned(<<>>)
  ELSE IF InquiryTimeRaises(d) THEN Raised("ValueError")
  ELSE
    LET two_weeks_ago == minus_days(now4a, 14)
        recent_data == RowsSince(d, two_weeks_ago)
        country_counts == value_counts(CellsOf(d, recent_data, col_country))
        hotspot(cc) ==
          LET country_data ==
                SelectSeq(recent_data, LAMBDA row : row[ColPos(d, col_country)] = cc.value)
              product_counts == value_counts(CellsOf(d, country_data, col_product))
          IN IF cc.count >= 3 /\ HasCol(d, col_product)
             THEN << [type |-> "regional_hotspot", priority |-> "high",
                      country |-> cc.value, count |-> cc.count,
                      product |-> IF Len(product_counts) > 0
                                  THEN product_counts[1].value ELSE unknown] >>
             ELSE <<>>
        one_week_ago == minus_days(now4b, 7)
        this_week_data == RowsSince(d, one_week_ago)
        last_week_data ==
          SelectSeq(RowsSince(d, two_weeks_ago), LAMBDA row :
            ts_lt(to_datetime_strict(row[ColPos(d, col_inquiry_time)]), one_week_ago))
        this_week_continent == value_counts(CellsOf(d, this_week_data, col_continent))
        last_count(continent) ==
          Cardinality({r \in 1..Len(last_week_data) :
                         last_week_data[r][ColPos(d, col_continent)] = continent})
        emerging(tc) ==
          IF /\ last_count(tc.value) > 0
             /\ (tc.count - last_count(tc.value)) * 100 > 50 * last_count(tc.value)
          THEN << [type |-> "emerging_market", priority |-> "high",
                   continent |-> tc.value,
                   growth_rate |-> [up |-> tc.count - last_count(tc.value),
                                    of |-> last_count(tc.value)]] >>
          ELSE <<>>
    IN Returned(
         Flatten([i \in 1..Len(country_counts) |-> hotspot(country_counts[i])])
         \o (IF HasCol(d, col_continent)
             THEN Flatten([i \in 1..Len(this_week_continent) |->
                             emerging(this_week_continent[i])])
             ELSE <<>>))

\* 'moq' in remark or ... in remark
MentionsLowMoq(remark) ==
  \/ IsSubstr(<<"m", "o", "q">>, remark)
  \/ IsSubstr(<<"u8d77", "u8ba2", "u91cf">>, remark)
  \/ IsSubstr(<<"u5c0f", "u6279", "u91cf">>, remark)

check_product_trends(d, now5) ==
  IF ~HasCol(d, col_product) \/ ~HasCol(d, col_inquiry_time) THEN Returned(<<>>)
  ELSE IF InquiryTimeRaises(d) THEN Raised("ValueError")
  ELSE
    LET one_week_ago == minus_days(now5, 7)
        recent_data == RowsSince(d, one_week_ago)
        product_counts == value_counts(CellsOf(d, recent_data, col_product))
        hot(pc) ==
          LET product_data ==
                SelectSeq(recent_data, LAMBDA row : row[ColPos(d, col_product)] = pc.value)
          IN IF pc.count >= 3
             THEN << [type |-> "hot_product", priority |-> "high",
                      product |-> pc.value, count |-> pc.count,
                      country_count |-> nunique(CellsOf(d, product_data, col_country))] >>
             ELSE <<>>
        low_moq_count ==
          Cardinality({r \in 1..Len(recent_data) :
                         MentionsLowMoq(remark_of(d, recent_data[r]))})
    IN \* product_data[country column] of a frame without that column
       IF ~HasCol(d, col_country)
          /\ \E i \in 1..Len(product_counts) : product_counts[i].count >= 3
       THEN Raised("KeyError")
       ELSE Returned(
              Flatten([i \in 1..Len(product_counts) |-> hot(product_counts[i])])
              \o (IF HasCol(d, col_remark) /\ low_moq_count >= 5
                  THEN << [type |-> "low_moq_demand", priority |-> "medium",
                           count |-> low_moq_count] >>
                  ELSE <<>>))

check_conversion_funnel(d, now6) ==
  IF ~HasCol(d, col_follow_up_grade) \/ ~HasCol(d, col_inquiry_time)
  THEN Returned(<<>>)
  ELSE IF InquiryTimeRaises(d) THEN Raised("ValueError")
  ELSE
    LET two_weeks_ago == minus_days(now6, 14)
        recent_data == RowsSince(d, two_weeks_ago)
        level_count(g) ==
          Cardinality({r \in 1..Len(recent_data) :
                         recent_data[r][ColPos(d, col_follow_up_grade)] = Str(g)})
        a_level_count == level_count(<<"A">>)
        x_level_count == level_count(<<"X">>)
        c_level_count == level_count(<<"C">>)
    IN IF Len(recent_data) = 0 THEN Returned(<<>>)
       ELSE Returned(
         (IF a_level_count = 0
          THEN << [type |-> "no_a_level", priority |-> "high", count |-> 0] >>
          ELSE <<>>)
         \o (IF x_level_count * 100 < 5 * Len(recent_data)
             THEN << [type |-> "low_conversion", priority |-> "high",
                      percentage |-> [count |-> x_level_count,
                                      of |-> Len(recent_data)]] >>
             ELSE <<>>)
         \o (IF c_level_count * 100 > 50 * Len(recent_data)
             THEN << [type |-> "high_c_level", priority |-> "medium",
                      percentage |-> [count |-> c_level_count,
                                      of |-> Len(recent_data)]] >>
             ELSE <<>>))

\* priority_order.get(x['priority'], 3)
priority_order(priority) ==
  CASE priority = "high" -> 0
    [] priority = "medium" -> 1
    [] priority = "low" -> 2
    [] OTHER -> 3

\* a sort by priority that turns around the alerts of equal priority
sort_reversing_ties(l) ==
  LET n == Len(l)
      key(i) == priority_order(l[i].priority)
      rank(i) == Cardinality({j \in 1..n : \/ key(j) < key(i)
                                            \/ (key(j) = key(i) /\ j > i)}) + 1
  IN [p \in 1..n |-> l[CHOOSE i \in 1..n : rank(i) = p]]

\* alerts.sort(key=lambda x: priority_order.get(x['priority'], 3)):
\* list.sort is stable
sort_alerts(l) ==
  LET order == StableOrder([i \in 1..Len(l) |-> priority_order(l[i].priority)])
  IN [p \in 1..Len(l) |-> l[order[p]]]

\* the list alerts after each extend, up to the detector that raises;
\* clock holds what the five datetime.now() calls return, in call order:
\* get_smart_alerts, _check_regional_trends twice, _check_product_trends,
\* _check_conversion_funnel
ExtendWith(acc, returned) ==
  IF ~acc.ok THEN acc
  ELSE IF returned.ok THEN [acc EXCEPT !.emitted = acc.emitted \o returned.alerts]
  ELSE [ok |-> FALSE, emitted |-> acc.emitted, exc |-> returned.exc]

get_smart_alerts(d, clock) ==
  IF d = NoFrame
  THEN [emitted |-> <<>>, result |-> Raised("ValueError")]
  ELSE
    Only({ [emitted |-> a6.emitted,
            result |-> IF a6.ok THEN Returned(sort_alerts(a6.emitted))
                       ELSE Raised(a6.exc)] :
      a6 \in {IF a5.ok THEN ExtendWith(a5, check_conversion_funnel(d, clock[5]))
              ELSE a5 :
        a5 \in {IF a4.ok THEN ExtendWith(a4, check_product_trends(d, clock[4]))
                ELSE a4 :
          a4 \in {ExtendWith(a3, check_regional_trends(d, clock[2], clock[3])) :
            a3 \in {[ok |-> TRUE,
                     emitted |-> check_high_value_customers(d)
                                 \o check_low_quality_inquiries(d)
                                 \o check_long_term_unfollow(d, clock[1])]}}}}})

\* the first n entries of a value_counts table
head(counts, n) == SubSeq(counts, 1, IF Len(counts) < n THEN Len(counts) ELSE n)

\* the columns analyze_data counts the values of, with the key of the result
\* each table goes to
analysis_tables ==
  << [key |-> "continent_analysis", col |-> col_continent, top |-> 0],
     [key |-> "country_analysis", col |-> col_country, top |-> 10],
     [key |-> "product_analysis", col |-> col_product, top |-> 10],
     [key |-> "follow_up_analysis", col |-> col_follow_up_grade, top |-> 0],
     [key |-> "handler_analysis", col |-> col_handler, top |-> 0] >>

\* analyze_data: the snapshot, without its date_range texts; daily_trend
\* counts the records of each day that pd.to_datetime(errors='coerce') finds
analyze_data(d) ==
  IF d = NoFrame THEN Raised("ValueError")
  ELSE
    LET table(t) ==
          LET counts == value_counts(ColCells(d, ColPos(d, t.col)))
          IN IF t.top = 0 THEN counts ELSE head(counts, t.top)
        days == IF HasCol(d, col_inquiry_time)
                THEN SelectSeq([r \in 1..Len(d.rows) |->
                                  to_datetime(d.rows[r][ColPos(d, col_inquiry_time)])],
                               LAMBDA t : t.k = "ts")
                ELSE <<>>
    IN [ok |-> TRUE,
        basic_stats |-> [total_customers |-> Len(d.rows),
                         total_inquiries |-> Len(d.rows)],
        tables |-> {[key |-> analysis_tables[i].key,
                     counts |-> table(analysis_tables[i])] :
                      i \in {i \in 1..Len(analysis_tables) :
                               HasCol(d, analysis_tables[i].col)}},
        daily_trend |-> {[day |-> day,
                          count |-> Cardinality({r \in 1..Len(days) : days[r].day = day})] :
                           day \in {days[r].day : r \in 1..Len(days)}}]

(***************************************************************************)
(* The alert runs: get_smart_alerts and analyze_data on the datasets a     *)
(* caller hands the analyzer, under the clock of the call.                 *)
(***************************************************************************)
AlertHeaders ==
  << col_customer_name, col_follow_up_grade, col_continent, col_country,
     col_product, col_remark, col_inquiry_time, col_last_follow_up >>

\* the columns get_smart_alerts reads besides the customer name
OptionalColumns == SeqToSet(AlertHeaders) \ {col_customer_name}

\* the day the alert runs take place
Today == Day0 + 30

\* the date text of the day k days before Today, as _convert_date_format
\* writes it
DaysAgo(k) == Str(strftime(Ts(Today - k, 0, 0), "/"))

\* a text that is no date
NoDate == Str(<<"u5f85", "u5b9a">>)

AlertRow(name, grade, continent, country, product, remark, asked, followed) ==
  << Str(name), Str(grade), Str(continent), Str(country), Str(product),
     Str(remark), asked, followed >>

\* follow-ups 5 to 9 days old under every grade, one phishing remark
FollowUpFrame ==
  << AlertRow(<<"a">>, <<"B">>, <<"E", "U">>, <<"D", "E">>, <<"P">>,
              <<"u9493", "u9c7c">>, DaysAgo(60), DaysAgo(5)),
     AlertRow(<<"b">>, <<"B">>, <<"E", "U">>, <<"F", "R">>, <<"Q">>, <<>>,
              DaysAgo(60), DaysAgo(6)),
     AlertRow(<<"c">>, <<"C">>, <<"A", "S">>, <<"J", "P">>, <<"P">>, <<>>,
              DaysAgo(60), DaysAgo(7)),
     AlertRow(<<"d">>, <<"B">>, <<"A", "S">>, <<"I", "N">>, <<"Q">>, <<>>,
              DaysAgo(60), DaysAgo(8)),
     AlertRow(<<"e">>, <<"A">>, <<"A", "S">>, <<"C", "N">>, <<"P">>, <<>>,
              DaysAgo(60), DaysAgo(9)),
     AlertRow(<<"f">>, <<"X">>, <<"A", "S">>, <<"K", "R">>, <<"Q">>, <<>>,
              DaysAgo(60), DaysAgo(9)) >>

\* three inquiries of one country for one product, asked k, k+1 and k+2 days
\* before Today (after it when k is negative)
HotspotFrame(k) ==
  << AlertRow(<<"a">>, <<"A">>, <<"N", "A">>, <<"U", "S">>, <<"P">>, <<>>,
              DaysAgo(k), EmptyStr),
     AlertRow(<<"b">>, <<"X">>, <<"N", "A">>, <<"U", "S">>, <<"P">>, <<>>,
              DaysAgo(k + 1), EmptyStr),
     AlertRow(<<"c">>, <<"C">>, <<"N", "A">>, <<"U", "S">>, <<"P">>, <<>>,
              DaysAgo(k + 2), Null) >>

\* three inquiries of one country of which one is asked 14 days ago to the
\* second and two are older
OldFrame ==
  << AlertRow(<<"a">>, <<"B">>, <<"N", "A">>, <<"U", "S">>, <<"P">>, <<>>,
              DaysAgo(14), EmptyStr),
     AlertRow(<<"b">>, <<"B">>, <<"N", "A">>, <<"U", "S">>, <<"Q">>, <<>>,
              DaysAgo(15), EmptyStr),
     AlertRow(<<"c">>, <<"B">>, <<"N", "A">>, <<"U", "S">>, <<"R">>, <<>>,
              DaysAgo(20), EmptyStr) >>

\* one inquiry of grade A in the last 14 days
SingleAFrame ==
  << AlertRow(<<"a">>, <<"A">>, <<"E", "U">>, <<"D", "E">>, <<"P">>, <<>>,
              DaysAgo(2), DaysAgo(1)) >>

\* two of three recent inquiries are of grade C
MostlyCFrame ==
  << AlertRow(<<"a">>, <<"C">>, <<"E", "U">>, <<"D", "E">>, <<"P">>, <<>>,
              DaysAgo(1), EmptyStr),
     AlertRow(<<"b">>, <<"C">>, <<"A", "S">>, <<"J", "P">>, <<"Q">>, <<>>,
              DaysAgo(2), EmptyStr),
     AlertRow(<<"c">>, <<"B">>, <<"N", "A">>, <<"U", "S">>, <<"R">>, <<>>,
              DaysAgo(3), EmptyStr) >>

\* an inquiry time and a last follow-up time that are no dates
NoDateFrame ==
  << AlertRow(<<"a">>, <<"B">>, <<"E", "U">>, <<"D", "E">>, <<"P">>, <<>>,
              NoDate, DaysAgo(8)),
     AlertRow(<<"b">>, <<"B">>, <<"A", "S">>, <<"J", "P">>, <<"Q">>, <<>>,
              DaysAgo(1), NoDate) >>

\* five recent remarks about the minimum order quantity, one of them with a
\* high-value keyword, one about an unread message on samples
MoqFrame ==
  << AlertRow(<<"a">>, <<"A">>, <<"E", "U">>, <<"D", "E">>, <<"P">>,
              <<"O", "E", "M", " ", "M", "O", "Q">>, DaysAgo(1), EmptyStr),
     AlertRow(<<"b">>, <<"A">>, <<"E", "U">>, <<"F", "R">>, <<"Q">>,
              <<"u672a", "u8bfb", "u6837", "u54c1", "m", "o", "q">>, DaysAgo(1), EmptyStr),
     AlertRow(<<"c">>, <<"X">>, <<"A", "S">>, <<"J", "P">>, <<"R">>,
              <<"m", "o", "q">>, DaysAgo(2), EmptyStr),
     AlertRow(<<"d">>, <<"A">>, <<"A", "S">>, <<"I", "N">>, <<"S">>,
              <<"u5c0f", "u6279", "u91cf">>, DaysAgo(2), EmptyStr),
     AlertRow(<<"e">>, <<"A">>, <<"A", "S">>, <<"C", "N">>, <<"T">>,
              <<"u8d77", "u8ba2", "u91cf">>, DaysAgo(3), EmptyStr) >>

\* an inquiry of grade B three days ago and one of grade A dated tomorrow
TomorrowFrame ==
  << AlertRow(<<"a">>, <<"B">>, <<"E", "U">>, <<"D", "E">>, <<"P">>, <<>>,
              DaysAgo(3), EmptyStr),
     AlertRow(<<"b">>, <<"A">>, <<"A", "S">>, <<"J", "P">>, <<"Q">>, <<>>,
              DaysAgo(0 - 1), EmptyStr) >>

\* one inquiry of a continent last week, two this week
GrowthFrame ==
  << AlertRow(<<"a">>, <<"A">>, <<"E", "U">>, <<"D", "E">>, <<"P">>, <<>>,
              DaysAgo(10), EmptyStr),
     AlertRow(<<"b">>, <<"X">>, <<"E", "U">>, <<"F", "R">>, <<"Q">>, <<>>,
              DaysAgo(2), EmptyStr),
     AlertRow(<<"c">>, <<"B">>, <<"E", "U">>, <<"I", "T">>, <<"R">>, <<>>,
              DaysAgo(1), EmptyStr) >>

\* the datasets with every column: the last one has no record
AlertFrames ==
  {[cols |-> AlertHeaders, rows |-> rows] :
     rows \in {FollowUpFrame, HotspotFrame(1), HotspotFrame(0 - 3), OldFrame,
               SingleAFrame, MostlyCFrame, NoDateFrame, MoqFrame,
               TomorrowFrame, GrowthFrame, <<>>}}

\* df.drop(columns=[col])
drop_column(d, col) ==
  LET keep == {j \in 1..Len(d.cols) : d.cols[j] # col}
      Pick(x) == SelectSeq([j \in 1..Len(x) |-> <<j, x[j]>>], LAMBDA p : p[1] \in keep)
      Strip(x) == [j \in 1..Len(Pick(x)) |-> Pick(x)[j][2]]
  IN [cols |-> Strip(d.cols), rows |-> [r \in 1..Len(d.rows) |-> Strip(d.rows[r])]]

MaxDropped == 1

\* the datasets that lack up to n of the optional columns
RECURSIVE Lacking(_)
Lacking(n) ==
  IF n = 0 THEN AlertFrames
  ELSE LET fewer == Lacking(n - 1)
       IN fewer \cup {drop_column(d, col) : d \in fewer, col \in OptionalColumns}

\* what datetime.now() returns at the start of a call, and one second later
Now0 == Ts(Today, 0, 0)
Later == Ts(Today, 1, 0)

\* the clock of one call: the five datetime.now() calls return Now0 until the
\* second passes
Clocks == {[i \in 1..5 |-> IF i < tick THEN Now0 ELSE Later] : tick \in 2..6}

\* get_smart_alerts on every dataset and clock of the model
SmartAlerts ==
  [d \in Lacking(MaxDropped) \cup {NoFrame} |->
     [clock \in Clocks |-> get_smart_alerts(d, clock)]]

InitAlerts ==
  /\ data \in AlertFrames \cup {NoFrame}
  /\ NoEngine /\ NoReport /\ NoEditor
  /\ df_in = NoFrame /\ df = NoFrame /\ step = "none" /\ passes = 0
  /\ prev_out = NoFrame
  /\ file = <<>> /\ out = NoFile
  /\ NoSession

\* the caller hands the analyzer the dataset without one of its columns
DropColumn ==
  /\ data # NoFrame
  /\ Len(AlertHeaders) - Len(data.cols) < MaxDropped
  /\ \E col \in OptionalColumns :
       /\ HasCol(data, col)
       /\ data' = drop_column(data, col)
  /\ UNCHANGED <<file, out, fvars, wvars, evars, rvars, tvars>>

GetSmartAlerts ==
  \E clock \in Clocks :
    \E r \in {SmartAlerts[data][clock]} :
       /\ now' = clock
       /\ called_on' = data
       /\ emitted' = r.emitted
       /\ alerts' = r.result
       /\ prev_call' = IF alerts = NoResult THEN NoResult
                       ELSE [k |-> "call", data |-> called_on, now |-> now,
                             emitted |-> emitted, alerts |-> alerts]
       /\ UNCHANGED <<analysis_results, avars, fvars, wvars, rvars, tvars>>

AnalyzeData ==
  /\ analysis_results' = analyze_data(data)
  /\ UNCHANGED <<now, called_on, emitted, alerts, prev_call, avars, fvars, wvars,
                 rvars, tvars>>

NextAlerts == DropColumn \/ GetSmartAlerts

SpecAlerts == InitAlerts /\ [][NextAlerts]_vars

\* analyze_data on the same datasets
NextAnalyze == DropColumn \/ AnalyzeData

SpecAnalyze == InitAlerts /\ [][NextAnalyze]_vars

(***************************************************************************)
(* Tab 1 of the web session: the column filters, the data editor and the   *)
(* sync button.  A record of the working dataset is named by its place in  *)
(* session_data.rows, the index label pandas keeps through df.loc[mask].   *)
(***************************************************************************)
\* base.index: the labels of the rows filter_by_time keeps
base_index(d, rng) ==
  LET all == [r \in 1..Len(d.rows) |-> r]
  IN IF FilterReturnsSelf(d) THEN all
     ELSE SelectSeq(all, LAMBDA r : InRange(d.rows[r][ColPos(d, col_inquiry_time)], rng))

filter_columns ==
  << col_contact_method, col_follow_up_grade, col_customer_tier,
     col_continent, col_country, col_handler >>

\* filtered[k].astype(str).str.contains(str(v), na=False), row by row
Contains(d, r, f) == IsSubstr(f.value, str_of(d.rows[r][ColPos(d, f.col)]))

\* for k, v in active_filters.items(): filtered = filtered[...]
RECURSIVE apply_filters(_, _, _)
apply_filters(d, idx, filters) ==
  IF filters = <<>> THEN idx
  ELSE apply_filters(d,
                     IF HasCol(d, Head(filters).col)
                     THEN SelectSeq(idx, LAMBDA r : Contains(d, r, Head(filters)))
                     ELSE idx,
                     Tail(filters))

\* the labels of the rows the data editor is given, in its row order
displayed(d, rng, filters) == apply_filters(d, base_index(d, rng), filters)

\* filtered.reset_index(drop=True): the rows renumbered from the top
reset_index(d, idx) ==
  [cols |-> d.cols, rows |-> [j \in 1..Len(idx) |-> d.rows[idx[j]]]]

\* the options of the select box of a filter column, "all" left out
filter_options(d, rng, col) ==
  IF ~HasCol(d, col) THEN {}
  ELSE {str_of(d.rows[base_index(d, rng)[j]][ColPos(d, col)]) :
          j \in {q \in 1..Len(base_index(d, rng)) :
                   ~IsNull(d.rows[base_index(d, rng)[q]][ColPos(d, col)])}}

\* the sync button: the edited rows are written, by position, over the first
\* len(edited_df) rows of the time-filtered frame
sync_edits(d, rng, edited) ==
  LET base == base_index(d, rng)
      written(c) == c \in SeqToSet(standard_columns) /\ HasCol(edited, c)
  IN IF Len(base) >= Len(edited.rows)
     THEN [d EXCEPT !.rows =
             [r \in 1..Len(d.rows) |->
                IF \E j \in 1..Len(edited.rows) : base[j] = r
                THEN LET j == CHOOSE q \in 1..Len(edited.rows) : base[q] = r
                     IN [c \in 1..Len(d.cols) |->
                           IF written(d.cols[c])
                           THEN edited.rows[j][ColPos(edited, d.cols[c])]
                           ELSE d.rows[r][c]]
                ELSE d.rows[r]]]
     ELSE d

\* the working datasets the editor runs start from, as an import leaves them
EditHeaders == <<col_customer_name, col_inquiry_time, col_follow_up_grade>>
EditRow(name, day, grade) == <<Str(name), Ts(Day0 + day, 0, 0), Str(grade)>>
EditFrames ==
  { [cols |-> EditHeaders, rows |-> rows] : rows \in
      { <<EditRow(<<"a">>, 0, <<"A">>)>>,
        <<EditRow(<<"a">>, 0, <<"A">>), EditRow(<<"b">>, 0, <<"B">>)>>,
        <<EditRow(<<"a">>, 0, <<"A">>), EditRow(<<"b">>, 1, <<"B">>)>>,
        <<EditRow(<<"a">>, 1, <<"A">>), EditRow(<<"b">>, 1, <<"A">>)>>,
        <<EditRow(<<"a">>, 0, <<"B">>), EditRow(<<"b">>, 1, <<"A">>),
          EditRow(<<"c">>, 1, <<"B">>)>> } }

MaxSyncs == 1

\* the data editor as a rerun draws it
Redraw(d, rng, filters) ==
  /\ edited_df' = reset_index(d, displayed(d, rng, filters))
  /\ shown_from' = displayed(d, rng, filters)

InitEdit ==
  /\ session_data \in EditFrames /\ data = session_data /\ aliased = TRUE
  /\ range \in Ranges
  /\ uploaded_files = <<>> /\ saved = NoFile /\ out = NoFile /\ file = <<>>
  /\ df_in = NoFrame /\ df = NoFrame /\ step = "none" /\ passes = 0
  /\ prev_out = NoFrame
  /\ NoEngine /\ NoReport
  /\ active_filters = <<>> /\ syncs = 0
  /\ edited_df = reset_index(session_data, displayed(session_data, range, <<>>))
  /\ shown_from = displayed(session_data, range, <<>>)

\* the user picks a value, or "all", in the select box of a filter column
SelectFilter ==
  /\ syncs < MaxSyncs
  /\ \E i \in 1..Len(filter_columns) :
       \E filters \in
            {<<>>} \cup {<<[col |-> filter_columns[i], value |-> v]>> :
                           v \in filter_options(session_data, range, filter_columns[i])} :
          /\ filters # active_filters
          /\ active_filters' = filters
          /\ Redraw(session_data, range, filters)
  /\ UNCHANGED <<fvars, avars, wvars, evars, rvars, syncs>>

\* the user types another grade into a cell of the editor
EditCell ==
  /\ syncs < MaxSyncs
  /\ \E j \in 1..Len(edited_df.rows) :
       LET c == ColPos(edited_df, col_follow_up_grade)
       IN /\ edited_df.rows[j][c] # Str(<<"X">>)
          /\ edited_df' = [edited_df EXCEPT !.rows[j][c] = Str(<<"X">>)]
  /\ UNCHANGED <<fvars, avars, wvars, evars, rvars, active_filters, shown_from, syncs>>

\* the user deletes a row of the editor
DeleteRow ==
  /\ syncs < MaxSyncs
  /\ \E j \in 1..Len(edited_df.rows) :
       LET without(x) == SubSeq(x, 1, j - 1) \o SubSeq(x, j + 1, Len(x))
       IN /\ edited_df' = [edited_df EXCEPT !.rows = without(edited_df.rows)]
          /\ shown_from' = without(shown_from)
  /\ UNCHANGED <<fvars, avars, wvars, evars, rvars, active_filters, syncs>>

\* the user adds a row at the bottom of the editor (num_rows="dynamic")
AddRow ==
  /\ syncs < MaxSyncs
  /\ \A j \in 1..Len(shown_from) : shown_from[j] # 0
  /\ edited_df' = [edited_df EXCEPT
                     !.rows = Append(@, [c \in 1..Len(edited_df.cols) |-> Null])]
  /\ shown_from' = Append(shown_from, 0)
  /\ UNCHANGED <<fvars, avars, wvars, evars, rvars, active_filters, syncs>>

\* the sync button; the write goes into the session's frame itself, which is
\* the analyzer's frame when the two are one object
SyncEdits ==
  /\ syncs < MaxSyncs
  /\ syncs' = syncs + 1
  /\ session_data' = sync_edits(session_data, range, edited_df)
  /\ data' = IF aliased THEN session_data' ELSE data
  /\ Redraw(session_data', range, active_filters)
  /\ UNCHANGED <<fvars, evars, rvars, file, out, aliased, uploaded_files, range,
                 saved, active_filters>>

NextEdit == SelectFilter \/ EditCell \/ DeleteRow \/ AddRow \/ SyncEdits

SpecEdit == InitEdit /\ [][NextEdit]_vars

(***************************************************************************)
(* generate_report: the narrative call, the data summary and the report    *)
(* file.  The report file is a record of the parts written to it, in the   *)
(* order of the writes; the fixed banner lines are left out.               *)
(***************************************************************************)
max_retries == 2

\* what one request of the narrative call can meet:
\*   content            status 200 and a body with output.choices[0].message.content
\*   status             a status other than 200
\*   timeout            requests.exceptions.Timeout
\*   request_exception  another requests.exceptions.RequestException: a network
\*                      error, or a body that is no JSON where response.json()
\*                      raises requests' own JSONDecodeError
\*   format             status 200 and a JSON object without output or choices
\*   other_exception    status 200 and a body on which the attempt raises
\*                      something else: choices empty (IndexError), message or
\*                      content missing (KeyError), a JSON null (TypeError), a
\*                      body that is no JSON where response.json() raises a
\*                      plain ValueError
Content(text) == [k |-> "content", text |-> text]
RequestOutcomes ==
  { Content(<<"o", "k">>), Content(<<>>) } \cup
  { [k |-> kind] : kind \in {"status", "timeout", "request_exception", "format",
                             "other_exception"} }

\* what the service would answer to the first, the second, ... request
Services == [1..max_retries -> RequestOutcomes]

\* the body of `for attempt in range(max_retries)` from attempt on, inside the
\* outer try: the requests sent and the value returned (None is Null)
RECURSIVE attempts(_, _)
attempts(service, attempt) ==
  IF attempt >= max_retries
  THEN [posted |-> SubSeq(service, 1, max_retries), result |-> Null]
  ELSE LET met == service[attempt + 1]
           sent == SubSeq(service, 1, attempt + 1)
       IN CASE met.k = "content" -> [posted |-> sent, result |-> Str(met.text)]
            [] met.k = "other_exception" -> [posted |-> sent, result |-> Null]
            [] OTHER -> IF attempt < max_retries - 1
                        THEN attempts(service, attempt + 1)
                        ELSE [posted |-> sent, result |-> Null]

call_qianwen_api(service) == attempts(service, 0)

\* the two helper columns _prepare_data_summary adds: date (ri qi) and week
\* number (zhou ci)
col_date == <<"u65e5", "u671f">>
col_week == <<"u5468", "u6b21">>

\* self.data[col] = cells: the column is overwritten, or appended as the last
assign_column(d, col, cells) ==
  IF HasCol(d, col)
  THEN [d EXCEPT !.rows = [r \in 1..Len(d.rows) |->
                             [d.rows[r] EXCEPT ![ColPos(d, col)] = cells[r]]]]
  ELSE [cols |-> Append(d.cols, col),
        rows |-> [r \in 1..Len(d.rows) |-> Append(d.rows[r], cells[r])]]

\* Python's order of two texts, by code point: '-' < '/' < the digits < the
\* letters and the CJK characters (which the model does not order further)
ord(ch) ==
  IF IsDigit(ch) THEN 48 + DigitVal(ch)
  ELSE IF ch = "/" THEN 47 ELSE IF ch = "-" THEN 45 ELSE 256

RECURSIVE str_lt(_, _)
str_lt(a, b) ==
  IF b = <<>> THEN FALSE
  ELSE IF a = <<>> THEN TRUE
  ELSE IF Head(a) = Head(b) THEN str_lt(Tail(a), Tail(b))
  ELSE ord(Head(a)) < ord(Head(b))

\* self.data[inquiry time].min() and .max(): nulls are skipped, NaT when
\* nothing is left; a column that mixes Timestamps and texts raises TypeError
series_extreme(cells, want_max) ==
  LET vals == {cells[r] : r \in {q \in 1..Len(cells) : ~IsNull(cells[q])}}
      before(a, b) == IF a.k = "ts" THEN ts_lt(a, b) ELSE str_lt(a.s, b.s)
  IN IF vals = {} THEN Null
     ELSE IF \E a, b \in vals : a.k # b.k THEN Raises
     ELSE CHOOSE x \in vals :
            \A y \in vals : IF want_max THEN ~before(x, y) ELSE ~before(y, x)

\* pd.to_datetime(x).strftime('%Y-%m-%d'): NaT.strftime raises, and so does
\* the parse of a text that is no date
date_text(x) ==
  IF x = Raises THEN Raises
  ELSE Only({IF t = Raises \/ IsNull(t) THEN Raises ELSE Str(strftime(t, "-")) :
               t \in {to_datetime_strict(x)}})

\* min_date, max_date and time_span: from the range the user chose, else
\* from the inquiry times of the dataset
date_span(d, user_date_range) ==
  LET span(lo, hi) ==
        Only({[min_date |-> lo, max_date |-> hi,
               time_span |-> days_between(last, first) + 1] :
                first \in {parse_date(lo.s)}, last \in {parse_date(hi.s)}})
  IN IF user_date_range # <<>>
     THEN span(user_date_range[1], user_date_range[2])
     ELSE IF ~HasCol(d, col_inquiry_time) THEN Raises
     ELSE Only({IF lo = Raises \/ hi = Raises THEN Raises ELSE span(lo, hi) :
                  lo \in {date_text(series_extreme(
                                     ColCells(d, ColPos(d, col_inquiry_time)), FALSE))},
                  hi \in {date_text(series_extreme(
                                     ColCells(d, ColPos(d, col_inquiry_time)), TRUE))}})

\* Timestamp.isocalendar().week of a day number (day 0 is a Thursday)
iso_week(day) ==
  LET weekday == (day + 3) % 7
      thursday == day - weekday + 3
      year == civil_from_days(thursday)[1]
  IN (thursday - days_from_civil(year, 1, 1)) \div 7 + 1

\* the columns _prepare_data_summary reads without asking whether they exist
summary_columns ==
  << col_customer_name, col_country, col_follow_up_grade, col_product,
     col_contact_method, col_handler, col_inquiry_time >>

\* the figures of the summary text; the percentages and averages the text
\* prints are quotients of these counts
summary_figures(d, span, with_dates, weekly) ==
  LET cells(col) == ColCells(d, ColPos(d, col))
      grade(g) == Cardinality({r \in 1..Len(d.rows) :
                                 d.rows[r][ColPos(d, col_follow_up_grade)] = Str(g)})
      dates == with_dates.rows
      date == ColPos(with_dates, col_date)
      days == {dates[r][date].day : r \in {q \in 1..Len(dates) : ~IsNull(dates[q][date])}}
      on(day) == Cardinality({r \in 1..Len(dates) : dates[r][date] = Ts(day, 0, 0)})
      handlers == {c \in SeqToSet(cells(col_handler)) : ~IsNull(c)}
  IN [min_date |-> span.min_date, max_date |-> span.max_date,
      time_span |-> span.time_span,
      total_inquiries |-> Len(d.rows),
      total_customers |-> nunique(cells(col_customer_name)),
      total_countries |-> nunique(cells(col_country)),
      levels |-> [g \in {"A", "B", "C", "X"} |-> grade(<<g>>)],
      countries |-> head(value_counts(cells(col_country)), 10),
      products |-> head(value_counts(cells(col_product)), 10),
      tiers |-> IF HasCol(d, col_customer_tier)
                THEN value_counts(cells(col_customer_tier)) ELSE <<>>,
      methods |-> value_counts(cells(col_contact_method)),
      handlers |-> {[handler |-> h,
                     inquiries |-> Cardinality({r \in 1..Len(d.rows) :
                                                  cells(col_handler)[r] = h}),
                     a_level |-> Cardinality({r \in 1..Len(d.rows) :
                                    /\ cells(col_handler)[r] = h
                                    /\ cells(col_follow_up_grade)[r] = Str(<<"A">>)})] :
                      h \in handlers},
      max_day |-> CHOOSE x \in days :
                    /\ \A y \in days : on(y) <= on(x)
                    /\ \A y \in days : on(y) = on(x) => x <= y,
      min_day |-> CHOOSE x \in days :
                    /\ \A y \in days : on(y) >= on(x)
                    /\ \A y \in days : on(y) = on(x) => x <= y,
      weekly |-> weekly]

\* lines 994-1003: with a span of two weeks or more the week numbers are
\* assigned to self.data and the records of each week counted
summary_with_weeks(d, span, with_dates) ==
  LET col == ColPos(d, col_inquiry_time)
      week_of(c) == LET t == to_datetime_strict(c)
                    IN IF IsNull(t) THEN Null ELSE PyInt(iso_week(t.day))
  IN Only({[summary |-> summary_figures(d, span, with_dates,
                          [w \in {weeks[r].n : r \in {q \in 1..Len(weeks) : ~IsNull(weeks[q])}} |->
                             Cardinality({r \in 1..Len(weeks) : weeks[r] = PyInt(w)})]),
            data |-> assign_column(with_dates, col_week, weeks)] :
             weeks \in {[r \in 1..Len(d.rows) |-> week_of(d.rows[r][col])]}})

\* lines 985-1003: the dates are assigned to self.data; idxmax of the empty
\* daily_trend raises when no record has a date
summary_with_dates(d, span) ==
  LET col == ColPos(d, col_inquiry_time)
      date_of(c) == LET t == to_datetime_strict(c)
                    IN IF IsNull(t) THEN Null ELSE Ts(t.day, 0, 0)
  IN Only({IF \A r \in 1..Len(d.rows) : IsNull(with_dates.rows[r][ColPos(with_dates, col_date)])
           THEN [summary |-> Raises, data |-> with_dates]
           ELSE IF span.time_span >= 14 THEN summary_with_weeks(d, span, with_dates)
           ELSE [summary |-> summary_figures(d, span, with_dates, <<>>),
                 data |-> with_dates] :
             with_dates \in {assign_column(d, col_date,
                                [r \in 1..Len(d.rows) |-> date_of(d.rows[r][col])])}})

\* _prepare_data_summary: what it returns (or that it raises) and the
\* dataset as the call leaves it: lines 986 and 997 assign to self.data
prepare_data_summary(d, user_date_range) ==
  IF IsEmpty(d) THEN [summary |-> [k |-> "no_data"], data |-> d]
  ELSE Only({IF \/ span = Raises
                \/ \E i \in 1..Len(summary_columns) : ~HasCol(d, summary_columns[i])
                \/ InquiryTimeRaises(d)
             THEN [summary |-> Raises, data |-> d]
             ELSE summary_with_dates(d, span) :
               span \in {date_span(d, user_date_range)}})

\* the datasets generate_report is run on
ReportHeaders ==
  << col_customer_name, col_inquiry_time, col_follow_up_grade, col_country,
     col_product, col_contact_method, col_handler >>

ReportRow(name, asked, grade, country, handler) ==
  << Str(name), asked, Str(grade), Str(country), Str(<<"P">>), Str(<<"T">>),
     Str(handler) >>

\* an inquiry time as read_excel leaves it (a text) and as the web import
\* leaves it (a Timestamp)
AskedText(n) == Str(strftime(Ts(Day0 + n, 0, 0), "/"))
AskedTs(n) == Ts(Day0 + n, 0, 0)

ReportFrames ==
  { NoFrame,
    [cols |-> ReportHeaders, rows |-> <<>>],
    drop_column([cols |-> ReportHeaders,
                 rows |-> <<ReportRow(<<"a">>, AskedText(0), <<"A">>, <<"D", "E">>, <<"h">>)>>],
                col_handler) } \cup
  { [cols |-> ReportHeaders, rows |-> rows] : rows \in
      { <<ReportRow(<<"a">>, AskedText(0), <<"A">>, <<"D", "E">>, <<"h">>),
          ReportRow(<<"b">>, AskedText(1), <<"B">>, <<"F", "R">>, <<"h">>)>>,
        <<ReportRow(<<"a">>, AskedText(0), <<"A">>, <<"D", "E">>, <<"h">>),
          ReportRow(<<"b">>, AskedText(20), <<"A">>, <<"D", "E">>, <<"g">>)>>,
        <<ReportRow(<<"a">>, AskedTs(0), <<"C">>, <<"D", "E">>, <<"h">>),
          ReportRow(<<"b">>, Null, <<"B">>, <<"F", "R">>, <<"h">>)>>,
        <<ReportRow(<<"a">>, AskedText(0), <<"A">>, <<"D", "E">>, <<"h">>),
          ReportRow(<<"b">>, EmptyStr, <<"B">>, <<"F", "R">>, <<"h">>)>>,
        <<ReportRow(<<"a">>, NoDate, <<"A">>, <<"D", "E">>, <<"h">>)>>,
        <<ReportRow(<<"a">>, Null, <<"X">>, <<"D", "E">>, <<"h">>)>> } }

\* user_date_range: None (here the empty tuple), or the two date texts tab 3
\* passes
DateTexts(lo, hi) == <<Str(strftime(Ts(lo, 0, 0), "-")), Str(strftime(Ts(hi, 0, 0), "-"))>>
UserDateRanges == {<<>>, DateTexts(Day0, Day0 + 1), DateTexts(Day0, Day0 + 13)}

\* the datasets of the report runs: the frames above as a caller loads them
\* and as earlier reports left them
RECURSIVE AfterReports(_)
AfterReports(n) ==
  IF n = 0 THEN ReportFrames \ {NoFrame}
  ELSE LET before == AfterReports(n - 1)
       IN before \cup {prepare_data_summary(d, u).data : d \in before, u \in UserDateRanges}

\* the data summary of each of these datasets under each date range
DataSummaries ==
  [d \in AfterReports(2) |-> [u \in UserDateRanges |-> prepare_data_summary(d, u)]]


\* _generate_fallback_report: the templated paragraph with its two counts
fallback_paragraph(d) ==
  [part |-> "fallback",
   total_inquiries |-> Len(d.rows),
   level_a_count |-> Cardinality({r \in 1..Len(d.rows) :
                       d.rows[r][ColPos(d, col_follow_up_grade)] = Str(<<"A">>)})]

\* _generate_text_report: the parts written to the file before it is closed,
\* the dataset afterwards, the requests sent and what the narrative call
\* returned (NoResult when it was not reached); an exception ends the writing
\* and is swallowed
generate_text_report(d, user_date_range, service) ==
  LET header == <<[part |-> "header"]>>
      narrative(called, subject) ==
        IF called.result # Null /\ called.result.s # <<>>
        THEN <<[part |-> "narrative", text |-> called.result.s]>>
        ELSE <<[part |-> "warning"], fallback_paragraph(subject)>>
  IN IF IsEmpty(d)
     THEN [file |-> Append(header, [part |-> "empty"]), data |-> d,
           posted |-> <<>>, ai_analysis |-> NoResult]
     ELSE Only({IF prepared.summary = Raises
                THEN [file |-> header, data |-> prepared.data,
                      posted |-> <<>>, ai_analysis |-> NoResult]
                ELSE Only({[file |-> header
                              \o <<[part |-> "period", min_date |-> span.min_date,
                                    max_date |-> span.max_date,
                                    time_span |-> span.time_span]>>
                              \o narrative(called, prepared.data)
                              \o <<[part |-> "appendix",
                                    data_summary |-> prepared.summary],
                                   [part |-> "end"]>>,
                            data |-> prepared.data,
                            posted |-> called.posted, ai_analysis |-> called.result] :
                             called \in {call_qianwen_api(service)},
                             span \in {date_span(prepared.data, user_date_range)}}) :
                  prepared \in {DataSummaries[d][user_date_range]}})

\* generate_report with force_reanalyze left at True: analyze_data, which
\* raises when no dataset is loaded, then the text report; the path of the
\* file is returned whatever was written
generate_report(d, user_date_range, service) ==
  IF d = NoFrame
  THEN [report |-> Raised("ValueError"), data |-> d, posted |-> <<>>,
        ai_analysis |-> NoResult]
  ELSE Only({[report |-> [ok |-> TRUE, file |-> written.file],
              data |-> written.data, posted |-> written.posted,
              ai_analysis |-> written.ai_analysis] :
               written \in {generate_text_report(d, user_date_range, service)}})

\* generate_report on each dataset, date range and service of the report runs
Reports ==
  [d \in AfterReports(2) \cup {NoFrame} |->
     [u \in UserDateRanges |-> [service \in Services |-> generate_report(d, u, service)]]]

(***************************************************************************)
(* ai_classify_customer: the classification request and the decoding of    *)
(* its answer.  A dict is the sequence of its <<key, value>> items, in the  *)
(* order the keys were inserted.                                           *)
(***************************************************************************)
key_classification ==
  << "c", "l", "a", "s", "s", "i", "f", "i", "c", "a", "t", "i", "o", "n" >>
key_intent ==
  << "i", "n", "t", "e", "n", "t" >>
key_suggestion ==
  << "s", "u", "g", "g", "e", "s", "t", "i", "o", "n" >>
\* wei zhi: unknown
default_intent ==
  << "u672a", "u77e5" >>
\* xu yao jin yi bu liao jie ke hu xu qiu: the customer's needs must be looked into
default_suggestion ==
  << "u9700", "u8981", "u8fdb", "u4e00", "u6b65", "u4e86", "u89e3", "u5ba2",
     "u6237", "u9700", "u6c42" >>

\* what ai_classify_customer returns from its except branches
Dict(items) == [k |-> "dict", items |-> items]
default_result ==
  Dict(<< <<key_classification, <<"C">>>>, <<key_intent, default_intent>>,
          <<key_suggestion, default_suggestion>> >>)

\* key in dict, and dict[key]
has_key(dict, key) == \E i \in 1..Len(dict.items) : dict.items[i][1] = key
get(dict, key) == dict.items[CHOOSE i \in 1..Len(dict.items) : dict.items[i][1] = key][2]

\* the place of the first ch in s, 0 when there is none
first_index(s, ch) ==
  IF \E i \in 1..Len(s) : s[i] = ch
  THEN CHOOSE i \in 1..Len(s) : s[i] = ch /\ \A j \in 1..(i - 1) : s[j] # ch
  ELSE 0

\* a JSON string at the front of s (escapes are not modelled): its value and
\* the text after it
parse_string(s) ==
  LET t == lstrip(s)
      close == IF t = <<>> THEN 0 ELSE first_index(Tail(t), "\"")
  IN IF t = <<>> \/ Head(t) # "\"" \/ close = 0 THEN Raises
     ELSE [value |-> SubSeq(Tail(t), 1, close - 1),
           rest |-> SubSeq(Tail(t), close + 1, Len(t) - 1)]

\* the members "key": "value", ... } of a JSON object, as <<key, value>> pairs
RECURSIVE parse_members(_)
parse_members(s) ==
  LET key == parse_string(s)
      colon == IF key = Raises THEN <<>> ELSE lstrip(key.rest)
      value == IF colon = <<>> \/ Head(colon) # ":" THEN Raises
               ELSE parse_string(Tail(colon))
      after == IF value = Raises THEN <<>> ELSE lstrip(value.rest)
  IN IF value = Raises \/ after = <<>> THEN Raises
     ELSE IF Head(after) = "}"
     THEN IF strip(Tail(after)) = <<>>
          THEN [members |-> <<<<key.value, value.value>>>>] ELSE Raises
     ELSE IF Head(after) = ","
     THEN LET more == parse_members(Tail(after))
          IN IF more = Raises THEN Raises
             ELSE [members |-> <<<<key.value, value.value>>>> \o more.members]
     ELSE Raises

\* json.loads on the texts of the model: an object of string members decodes
\* to a dict (a repeated key keeps its last value), everything else raises
json_loads(s) ==
  LET t == strip(s)
      body == IF t = <<>> THEN <<>> ELSE lstrip(Tail(t))
      parsed == IF body # <<>> /\ Head(body) = "}" /\ strip(Tail(body)) = <<>>
                THEN [members |-> <<>>] ELSE parse_members(body)
      members == parsed.members
  IN IF t = <<>> \/ Head(t) # "{" \/ parsed = Raises THEN Raises
     ELSE LET first == SelectSeq([i \in 1..Len(members) |-> i], LAMBDA i :
                         \A j \in 1..(i - 1) : members[j][1] # members[i][1])
              last(key) == CHOOSE i \in 1..Len(members) :
                             /\ members[i][1] = key
                             /\ \A j \in (i + 1)..Len(members) : members[j][1] # key
          IN Dict([n \in 1..Len(first) |->
                     <<members[first[n]][1], members[last(members[first[n]][1])][2]>>])

\* re.search(r'\{.*\}', response, re.DOTALL): from the first { to the last }
\* after it; <<>> when there is no match
json_match(response) ==
  LET open == first_index(response, "{")
      closes == {j \in 1..Len(response) : response[j] = "}" /\ j > open}
  IN IF open = 0 \/ closes = {} THEN <<>>
     ELSE SubSeq(response, open, CHOOSE j \in closes : \A q \in closes : q <= j)

\* the if / elif chain over 'A', 'B', 'X' in response
scan_classification(response) ==
  IF IsSubstr(<<"A">>, response) THEN <<"A">>
  ELSE IF IsSubstr(<<"B">>, response) THEN <<"B">>
  ELSE IF IsSubstr(<<"X">>, response) THEN <<"X">>
  ELSE <<"C">>

\* _parse_classification_response; response is Null when the service handed
\* back no text, and re.search then raises
parse_classification_response(response) ==
  IF response = Null THEN default_result
  ELSE IF json_match(response.s) # <<>>
  THEN IF json_loads(json_match(response.s)) = Raises THEN default_result
       ELSE json_loads(json_match(response.s))
  ELSE Dict(<< <<key_classification, scan_classification(response.s)>>,
               <<key_intent, default_intent>>,
               <<key_suggestion, default_suggestion>> >>)

\* the answers of the service the runs draw from
\* a complete answer
FullAnswer ==
  << "{", "\"", "c", "l", "a", "s", "s", "i", "f", "i", "c", "a", "t", "i",
     "o", "n", "\"", ":", " ", "\"", "A", "\"", ",", " ", "\"", "i", "n",
     "t", "e", "n", "t", "\"", ":", " ", "\"", "i", "\"", ",", " ", "\"",
     "s", "u", "g", "g", "e", "s", "t", "i", "o", "n", "\"", ":", " ", "\"",
     "s", "\"", "}" >>
\* a complete answer inside a sentence
WrappedAnswer ==
  << "o", "k", " ", "{", "\"", "c", "l", "a", "s", "s", "i", "f", "i", "c",
     "a", "t", "i", "o", "n", "\"", ":", "\"", "X", "\"", ",", "\"", "i",
     "n", "t", "e", "n", "t", "\"", ":", "\"", "i", "\"", ",", "\"", "s",
     "u", "g", "g", "e", "s", "t", "i", "o", "n", "\"", ":", "\"", "s",
     "\"", "}", "." >>
\* a JSON object whose classification is none of the four
GradeDAnswer ==
  << "{", "\"", "c", "l", "a", "s", "s", "i", "f", "i", "c", "a", "t", "i",
     "o", "n", "\"", ":", "\"", "D", "\"", ",", "\"", "i", "n", "t", "e",
     "n", "t", "\"", ":", "\"", "i", "\"", ",", "\"", "s", "u", "g", "g",
     "e", "s", "t", "i", "o", "n", "\"", ":", "\"", "s", "\"", "}" >>
\* a JSON object without intent and suggestion
PartialAnswer ==
  << "{", "\"", "c", "l", "a", "s", "s", "i", "f", "i", "c", "a", "t", "i",
     "o", "n", "\"", ":", "\"", "B", "\"", "}" >>
MaxTextLen == 3

\* every text of up to n characters over the letters the scan looks for, a
\* letter it does not look for, and the two braces
RECURSIVE ShortTexts(_)
ShortTexts(n) ==
  IF n = 0 THEN {<<>>}
  ELSE LET shorter == ShortTexts(n - 1)
       IN shorter \cup
          {Append(t, ch) : t \in {x \in shorter : Len(x) = n - 1},
                           ch \in {"A", "B", "X", "c", "{", "}"}}

ResponseTexts ==
  {FullAnswer, WrappedAnswer, GradeDAnswer, PartialAnswer} \cup ShortTexts(MaxTextLen)

\* what the classification request can meet: status 200 and a body whose
\* output.text is a text or null, another status, or an exception (the
\* transport's, or that of a body without output.text)
QwenOutcomes ==
  {[k |-> "text", text |-> t] : t \in ResponseTexts} \cup
  {[k |-> "null_text"], [k |-> "status"], [k |-> "exception"]}

\* _call_qwen_api: the text of the answer, '' on a failure
call_qwen_api(met) ==
  CASE met.k = "text" -> Str(met.text)
    [] met.k = "null_text" -> Null
    [] OTHER -> EmptyStr

ai_classify_customer(met) == parse_classification_response(call_qwen_api(met))

\* ai_classify_customer on each outcome of the classification runs
Classifications == [met \in QwenOutcomes |-> ai_classify_customer(met)]

\* the classification runs: one request, met by one of QwenOutcomes
InitClassify ==
  /\ qwen_outcome \in QwenOutcomes
  /\ classified = NoResult
  /\ posted = <<>> /\ ai_analysis = NoResult /\ report_file = NoResult
  /\ data = NoFrame /\ file = <<>> /\ out = NoFile
  /\ df_in = NoFrame /\ df = NoFrame /\ step = "none" /\ passes = 0
  /\ prev_out = NoFrame
  /\ NoSession /\ NoEngine /\ NoEditor

AiClassifyCustomer ==
  /\ classified = NoResult
  /\ classified' = Classifications[qwen_outcome]
  /\ UNCHANGED <<fvars, avars, wvars, evars, tvars, posted, ai_analysis, report_file,
                 qwen_outcome>>

SpecClassify == InitClassify /\ [][AiClassifyCustomer]_vars

(***************************************************************************)
(* The report runs: generate_report on the datasets a caller holds, with   *)
(* or without a date range chosen by the user, against a service that      *)
(* answers each request in one of the ways of RequestOutcomes.             *)
(***************************************************************************)
InitReport ==
  /\ data \in ReportFrames
  /\ file = <<>> /\ out = NoFile
  /\ df_in = NoFrame /\ df = NoFrame /\ step = "none" /\ passes = 0
  /\ prev_out = NoFrame
  /\ NoSession /\ NoEngine /\ NoReport /\ NoEditor

GenerateReport ==
  /\ \E user_date_range \in UserDateRanges, service \in Services :
       \E r \in {Reports[data][user_date_range][service]} :
          /\ report_file' = r.report
          /\ data' = r.data
          /\ posted' = r.posted
          /\ ai_analysis' = r.ai_analysis
          /\ analysis_results' = IF r.report.ok THEN analyze_data(data)
                                  ELSE analysis_results
  /\ UNCHANGED <<fvars, wvars, tvars, file, out, now, called_on, emitted, alerts,
                 prev_call, qwen_outcome, classified>>

SpecReport == InitReport /\ [][GenerateReport]_vars

(***************************************************************************)
(* The properties.                                                         *)
(***************************************************************************)
\* the (customer name, inquiry time, product) keys of the records of a frame
KeysOf(d) ==
  {[i \in 1..Len(dedup_key) |-> CellAt(d, d.rows[r], dedup_key[i])] :
     r \in 1..Len(d.rows)}

\* C1: in the web session every record the working dataset holds before a
\* rerun (its import included) is still held after it, by its (customer name,
\* inquiry time, product) key: an import only appends and replaces records of
\* the same key.
C1_ImportOnlyAppends ==
  [][session_data # NoFrame => KeysOf(session_data) \subseteq KeysOf(session_data')]_vars

\* C2: after read_excel the working dataset never holds two rows whose
\* values are identical across all columns.
C2_NoIdenticalRows ==
  data # NoFrame =>
    \A p, q \in 1..Len(data.rows) : p # q => ~SameRow(data.rows[p], data.rows[q])

\* C3, as stated: the cleaning pass returns one row per distinct input row
\* (N - k rows), and every returned row equals some input row.
C3_OneRowPerDistinctInputRow ==
  step = "cleaned" =>
    /\ Len(df.rows) = Cardinality(SeqToSet(df_in.rows))
    /\ \A r \in 1..Len(df.rows) : df.rows[r] \in SeqToSet(df_in.rows)

\* C3, amended: the cleaning pass returns one row per distinct cleaned row:
\* no two returned rows are equal, the returned rows are the cleaned input
\* rows, and there are at most N - k of them.
C3_OneRowPerDistinctCleanedRow ==
  step = "cleaned" =>
    /\ \A p, q \in 1..Len(df.rows) : p # q => ~SameRow(df.rows[p], df.rows[q])
    /\ SeqToSet(df.rows) = SeqToSet(clean_cells(df_in).rows)
    /\ Len(df.rows) <= Cardinality(SeqToSet(df_in.rows))

\* a table of two rows, the second an exact copy of the first, cleaned to one
C3_CopyDropped ==
  /\ step = "cleaned"
  /\ Len(df_in.rows) = 2
  /\ df_in.rows[1] = df_in.rows[2]
  /\ Len(df.rows) = 1

\* C4: cleaning the output of the Data Cleaner (_clean_data, then
\* _convert_date_format) again yields the identical dataset.
C4_CleaningIsIdempotent ==
  (step = "formatted" /\ passes >= 2) => df = prev_out

\* C5, as stated: every positive serial n of a numeric date column is
\* converted to the day n days after 1899-12-30 (1 to 1899-12-31, 25569 to
\* 1970-01-01).
C5_SerialIsDaysSince1899 ==
  (step = "cleaned" /\ passes = 1) =>
    LET cells == ColCells(df_in, ColPos(df_in, col_inquiry_time))
        got == {df.rows[r][ColPos(df, col_inquiry_time)] : r \in 1..Len(df.rows)}
    IN \A r \in 1..Len(cells) :
         (IsNum(cells[r]) /\ cells[r].n > 0) =>
           Ts(days_from_civil(1899, 12, 30) + cells[r].n, 0, 0) \in got

\* C5, amended: a numeric date column whose smallest value exceeds 25568 is
\* converted as days since 1899-12-30: every positive serial n becomes the
\* day n days after 1899-12-30 (25569 becomes 1970-01-01) and an empty cell
\* stays empty.
C5_SerialAboveThreshold ==
  (step = "cleaned" /\ passes = 1) =>
    LET cells == ColCells(df_in, ColPos(df_in, col_inquiry_time))
        ns == {cells[r].n : r \in {q \in 1..Len(cells) : IsNum(cells[q])}}
        Expected(c) == IF IsNull(c) THEN EmptyStr ELSE Ts(c.n - 25569, 0, 0)
    IN (IsNumericCol(cells) /\ ns # {} /\ \A n \in ns : n > 25568) =>
         {df.rows[r][ColPos(df, col_inquiry_time)] : r \in 1..Len(df.rows)}
           = {Expected(cells[r]) : r \in 1..Len(cells)}

\* a date column holding serial 25569 and nothing smaller, cleaned to
\* 1970-01-01
C5_Serial25569 ==
  /\ step = "cleaned" /\ passes = 1
  /\ LET cells == ColCells(df_in, ColPos(df_in, col_inquiry_time))
     IN /\ \E r \in 1..Len(cells) : cells[r] = PyInt(25569)
        /\ \A r \in 1..Len(cells) : IsNum(cells[r]) /\ cells[r].n >= 25569
  /\ \E r \in 1..Len(df.rows) : df.rows[r][ColPos(df, col_inquiry_time)] = Ts(0, 0, 0)

\* C6: after an import in the web session no cell of the working dataset is
\* null, and each date field is a valid date or the empty string.
C6_NoNullCell ==
  session_data # NoFrame =>
    \A r \in 1..Len(session_data.rows) :
      /\ \A j \in 1..Len(session_data.cols) : ~IsNull(session_data.rows[r][j])
      /\ \A i \in 1..Len(date_columns) :
           LET c == CellAt(session_data, session_data.rows[r], date_columns[i])
           IN c = EmptyStr \/ ~IsNull(to_datetime(c))

\* C7: a numeric-looking product id is never a floating-point number in the
\* dataset, and every export writes it as its exact digits.
C7_ProductIdIsDigits ==
  /\ data # NoFrame =>
       \A r \in 1..Len(data.rows) :
          CellAt(data, data.rows[r], col_product_id).k # "float"
  /\ \A sh \in out.sheets : \A r \in 1..Len(sh.rows) :
       LET c == GetCell(sh, sh.rows[r], col_product_id)
       IN c.k = "str" /\ \A i \in 1..Len(c.s) : IsDigit(c.s[i])

\* C8: the originating-sheet column is in no exported file, Excel or CSV.
C8_SourceSheetNotExported ==
  \A sh \in out.sheets : ~HasCol(sh, col_source_sheet)

\* C9: the normalized table has exactly the 12 canonical columns: each is
\* present and no other column remains.
C9_ExactlyCanonicalColumns ==
  step = "standardized" => SeqToSet(df.cols) = SeqToSet(standard_columns)

\* C10: after normalization each canonical field name is carried by at most
\* one column.
C10_OneColumnPerField ==
  step = "standardized" =>
    \A i \in 1..Len(standard_columns) :
       Cardinality(ColIdx(df, standard_columns[i])) <= 1

\* the first group of the elif chain whose keyword test a header passes,
\* whatever fields are used; 0 when it passes none
FirstMatch(col) == TakenGroup(col, {})

\* C11: a column whose first matching keyword group belongs to a field that
\* an earlier column has claimed keeps its own header: it is never renamed to
\* the field of a later group.
C11_ClaimedFirstGroupLeavesUnmapped ==
  step = "standardized" =>
    \A j \in 1..Len(df_in.cols) :
       LET g == FirstMatch(df_in.cols[j])
       IN (/\ g # 0
           /\ \E i \in 1..(j - 1) :
                column_mapping(df_in.cols)[i] = keyword_groups[g].field)
          => df.cols[j] = df_in.cols[j]

\* C12: analyze_data raises both without a dataset and on a dataset without
\* rows; it returns a snapshot only for a dataset with at least one row.
C12_AnalyzeNeedsRows ==
  analysis_results # NoResult => (analysis_results.ok <=> ~IsEmpty(data))

\* the list a call returned, empty when it raised
Returns(result) == IF result.ok THEN result.alerts ELSE <<>>

\* the alerts of a list that are, or are not, of some types
OfTypes(l, types) == SelectSeq(l, LAMBDA a : a.type \in types)
NotOfTypes(l, types) == SelectSeq(l, LAMBDA a : a.type \notin types)

\* the types of the alerts that come from the remark column
remark_alert_types ==
  {"high_value_opportunity", "level_upgraded", "low_quality_warning",
   "low_quality_summary", "unread_message", "low_moq_demand"}

\* the last call ran on the dataset of the call before it without its remark
\* column, under the same clock
SameCallWithoutRemark ==
  /\ prev_call # NoResult
  /\ HasCol(prev_call.data, col_remark)
  /\ called_on = drop_column(prev_call.data, col_remark)
  /\ now = prev_call.now

\* C13: on a dataset without the remark column get_smart_alerts returns no
\* alert of the six remark types, and returns the alerts of every other type
\* exactly as on the same dataset with the remark column.
C13_RemarkColumnOnlyFeedsRemarkAlerts ==
  /\ (alerts # NoResult /\ called_on # NoFrame /\ ~HasCol(called_on, col_remark))
       => OfTypes(Returns(alerts), remark_alert_types) = <<>>
  /\ SameCallWithoutRemark
       => /\ alerts.ok = prev_call.alerts.ok
          /\ NotOfTypes(Returns(alerts), remark_alert_types)
               = NotOfTypes(Returns(prev_call.alerts), remark_alert_types)

\* the call with the remark column returned remark alerts, the call without
\* it returns alerts of the other types
C13_RemarkAlertsGone ==
  /\ SameCallWithoutRemark
  /\ OfTypes(Returns(prev_call.alerts), remark_alert_types) # <<>>
  /\ Returns(alerts) # <<>>

\* the alerts of a list that have some priority
OfPriority(l, priority) == SelectSeq(l, LAMBDA a : a.priority = priority)

\* C14: in the returned list every high alert is before every medium alert
\* and every medium alert before every low alert, and the alerts of one
\* priority are in the order the detectors emitted them.
C14_SortedByPriorityStable ==
  (alerts # NoResult /\ alerts.ok) =>
    LET l == alerts.alerts
        tier(a) == IF a.priority = "high" THEN 1
                   ELSE IF a.priority = "medium" THEN 2 ELSE 3
    IN /\ Len(l) = Len(emitted)
       /\ \A i, j \in 1..Len(l) : i < j => tier(l[i]) <= tier(l[j])
       /\ \A priority \in {"high", "medium", "low"} :
            OfPriority(l, priority) = OfPriority(emitted, priority)

\* the detectors emitted two different high alerts with a low and a medium
\* alert between them, and the call returned
C14_HighsApartSorted ==
  /\ alerts # NoResult /\ alerts.ok
  /\ \E i, j, k, m \in 1..Len(emitted) :
       /\ i < j /\ j < k /\ k < m
       /\ emitted[i].priority = "high" /\ emitted[j].priority = "low"
       /\ emitted[k].priority = "medium" /\ emitted[m].priority = "high"
       /\ emitted[i] # emitted[m]

\* C15: two calls of get_smart_alerts on the same dataset that start at the
\* same current time return the same, whether or not the clock advances
\* between the detectors of either call.
C15_SameInputsSameAlerts ==
  (/\ prev_call # NoResult
   /\ prev_call.data = called_on
   /\ prev_call.now[1] = now[1])
  => prev_call.alerts = alerts

\* every cell of a date column is missing, empty or a date
DatesParse(d, col) ==
  HasCol(d, col) =>
    \A r \in 1..Len(d.rows) :
       LET c == d.rows[r][ColPos(d, col)]
       IN IsNull(c) \/ c = EmptyStr \/ (c.k = "str" /\ parse_date(c.s) # Null)

UnfollowAlertsFor(name) ==
  SelectSeq(emitted, LAMBDA a : a.type = "long_term_unfollow" /\ a.customer_name = name)

\* C18: for every record whose last follow-up time is a date, the detectors
\* emit one long_term_unfollow alert when the grade is neither X nor A and
\* more than 5 whole days have passed since that date, and none otherwise; the
\* alert is high when more than 7 days have passed, medium otherwise.
C18_UnfollowAlertIffOverdue ==
  (alerts # NoResult /\ called_on # NoFrame /\ HasCol(called_on, col_last_follow_up)) =>
    \A r \in 1..Len(called_on.rows) :
       LET row == called_on.rows[r]
           last == row[ColPos(called_on, col_last_follow_up)]
           grade == IF HasCol(called_on, col_follow_up_grade)
                    THEN row[ColPos(called_on, col_follow_up_grade)] ELSE EmptyStr
           mine == UnfollowAlertsFor(row[ColPos(called_on, col_customer_name)])
           \* the dates are at midnight and the call is at or after midnight
           days == now[1].day - parse_date(last.s).day
       IN (last.k = "str" /\ parse_date(last.s) # Null) =>
            /\ Len(mine) = (IF grade \notin {Str(<<"X">>), Str(<<"A">>)} /\ days > 5
                            THEN 1 ELSE 0)
            /\ \A i \in 1..Len(mine) :
                 /\ mine[i].days_overdue = days
                 /\ mine[i].priority = (IF days > 7 THEN "high" ELSE "medium")

\* follow-ups of grade B or C that are 5, 6, 7 and 8 days old: no alert for
\* the first, medium alerts for 6 and 7 days, a high alert for 8 days
C18_AroundTheThresholds ==
  /\ alerts # NoResult
  /\ called_on.rows = FollowUpFrame
  /\ HasCol(called_on, col_last_follow_up)
  /\ UnfollowAlertsFor(Str(<<"a">>)) = <<>>
  /\ \E a, b, c \in SeqToSet(emitted) :
       /\ a.type = "long_term_unfollow" /\ a.days_overdue = 6 /\ a.priority = "medium"
       /\ b.type = "long_term_unfollow" /\ b.days_overdue = 7 /\ b.priority = "medium"
       /\ c.type = "long_term_unfollow" /\ c.days_overdue = 8 /\ c.priority = "high"

\* the date of an inquiry time cell is between 14 days before t and t
Within14Days(c, t) ==
  /\ to_datetime(c).k = "ts"
  /\ ts_ge(to_datetime(c), minus_days(t, 14))
  /\ ts_ge(t, to_datetime(c))

\* C19: a regional_hotspot alert naming a country is emitted exactly when at
\* least 3 records of that country have an inquiry time in the 14 days up to
\* now; records dated before these days or after now do not count.
C19_HotspotIffThreeInWindow ==
  (/\ alerts # NoResult /\ alerts.ok
   /\ HasCol(called_on, col_country) /\ HasCol(called_on, col_inquiry_time)) =>
    \A r \in 1..Len(called_on.rows) :
       LET country == called_on.rows[r][ColPos(called_on, col_country)]
           in_window ==
             {q \in 1..Len(called_on.rows) :
                /\ called_on.rows[q][ColPos(called_on, col_country)] = country
                /\ Within14Days(called_on.rows[q][ColPos(called_on, col_inquiry_time)],
                                now[2])}
       IN (\E i \in 1..Len(emitted) :
             emitted[i].type = "regional_hotspot" /\ emitted[i].country = country)
          <=> Cardinality(in_window) >= 3

\* the types of the alerts of the conversion-funnel detector
funnel_alert_types == {"no_a_level", "low_conversion", "high_c_level"}

\* C20: when some record was asked in the 14 days up to now, the funnel
\* detector emits no_a_level exactly when none of these records is of grade A,
\* low_conversion exactly when less than 5% of them are of grade X and
\* high_c_level exactly when more than 50% of them are of grade C; when no
\* record was asked in these days it emits no funnel alert.
C20_FunnelChecksOnTheWindow ==
  (/\ alerts # NoResult /\ alerts.ok
   /\ HasCol(called_on, col_follow_up_grade) /\ HasCol(called_on, col_inquiry_time)) =>
    LET window ==
          {r \in 1..Len(called_on.rows) :
             Within14Days(called_on.rows[r][ColPos(called_on, col_inquiry_time)], now[5])}
        of_grade(g) ==
          Cardinality({r \in window :
                         called_on.rows[r][ColPos(called_on, col_follow_up_grade)] = Str(g)})
        fired(type) == \E i \in 1..Len(emitted) : emitted[i].type = type
    IN IF window = {}
       THEN OfTypes(emitted, funnel_alert_types) = <<>>
       ELSE /\ fired("no_a_level") <=> of_grade(<<"A">>) = 0
            /\ fired("low_conversion") <=> of_grade(<<"X">>) * 100 < 5 * Cardinality(window)
            /\ fired("high_c_level") <=> of_grade(<<"C">>) * 100 > 50 * Cardinality(window)

\* C26: after any sequence of imports in the web session the working dataset
\* never holds two records with the same (customer name, inquiry time,
\* product) key.
C26_OneRecordPerKey ==
  session_data # NoFrame =>
    \A p, q \in 1..Len(session_data.rows) :
       p # q => ~SameKey(session_data, session_data.rows[p], session_data.rows[q])

\* C27: the tab 1 export of the filtered result leaves the analyzer's dataset
\* equal to the session's full working dataset when it finishes.
C27_ExportRestoresAnalyzerData ==
  [][ClickExport => data' = session_data']_vars

\* C30: after export_data, called by the save button with the month grouping,
\* the session's working dataset has the columns it had before: the
\* month-grouping helper column does not remain.
C30_SaveKeepsColumns ==
  [][ClickSave => session_data'.cols = session_data.cols]_vars

\* C28: the sync button writes each edited row back to the record it was
\* displayed from, under any time filter and column filters: with no row
\* deleted or added, a record that is not shown is unchanged and each shown
\* record receives the values of its own edited row.
C28_SyncWritesEachRowToItsRecord ==
  [][(SyncEdits /\ shown_from = displayed(session_data, range, active_filters)) =>
       /\ Len(session_data'.rows) = Len(session_data.rows)
       /\ \A r \in 1..Len(session_data.rows) :
            IF \E j \in 1..Len(shown_from) : shown_from[j] = r
            THEN \E j \in 1..Len(shown_from) :
                   shown_from[j] = r /\ session_data'.rows[r] = edited_df.rows[j]
            ELSE session_data'.rows[r] = session_data.rows[r]]_vars

\* C29: after rows are deleted in the editor (nothing else edited) and the
\* sync button is pressed, the deleted records are no longer in the working
\* dataset and every other record is unchanged.
C29_SyncDropsDeletedRecords ==
  [][(/\ SyncEdits
      /\ \A j \in 1..Len(shown_from) :
           shown_from[j] # 0 /\ edited_df.rows[j] = session_data.rows[shown_from[j]]
      /\ Len(shown_from) < Len(displayed(session_data, range, active_filters))) =>
       LET deleted == SeqToSet(displayed(session_data, range, active_filters))
                        \ SeqToSet(shown_from)
           kept == SelectSeq([r \in 1..Len(session_data.rows) |-> r],
                             LAMBDA r : r \notin deleted)
       IN session_data'.rows = [i \in 1..Len(kept) |-> session_data.rows[kept[i]]]]_vars

\* an attempt of the narrative call that did not deliver a narrative
Failed(met) == met.k # "content"

\* the parts of a kind in the report file
HasPart(report, kind) ==
  \E i \in 1..Len(report.file) : report.file[i].part = kind

\* C21: whatever the service answers, narrative generation sends at least one
\* and at most two requests, sends the second request exactly when the first
\* attempt failed, and when no attempt succeeds the report holds the fallback
\* paragraph.
C21_SecondRequestIffFirstFailed ==
  ai_analysis # NoResult =>
    /\ Len(posted) \in 1..2
    /\ Len(posted) = 2 <=> Failed(posted[1])
    /\ (\A i \in 1..Len(posted) : Failed(posted[i])) =>
         report_file.ok /\ HasPart(report_file, "fallback")

\* C22: every report file generate_report produces for a loaded dataset that
\* holds a record contains the data-summary appendix.
C22_ReportHasAppendix ==
  (report_file # NoResult /\ report_file.ok /\ data # NoFrame /\ Len(data.rows) > 0) =>
    HasPart(report_file, "appendix")

\* what the decoder was given, as a text
response_text(met) ==
  LET response == call_qwen_api(met)
  IN IF response = Null THEN <<>> ELSE response.s

\* C23: whatever the classification request meets, ai_classify_customer
\* returns a result with classification, intent and suggestion, and its
\* classification is one of A, B, C, X.
C23_ResultFullyPopulated ==
  classified # NoResult =>
    /\ \A key \in {key_classification, key_intent, key_suggestion} :
         has_key(classified, key)
    /\ get(classified, key_classification) \in {<<"A">>, <<"B">>, <<"C">>, <<"X">>}

\* C24: when the response is no JSON object that decodes (a text with braces
\* that does not decode and the empty text of a failed call included), the
\* classification is the first of A, B, X that occurs in the raw text, and C
\* with the generic intent and suggestion when none occurs.
C24_UndecodableTextIsScanned ==
  (/\ classified # NoResult
   /\ \/ json_match(response_text(qwen_outcome)) = <<>>
      \/ json_loads(json_match(response_text(qwen_outcome))) = Raises) =>
    classified = Dict(<< <<key_classification,
                           scan_classification(response_text(qwen_outcome))>>,
                         <<key_intent, default_intent>>,
                         <<key_suggestion, default_suggestion>> >>)

\* C25: generate_report, whether it returns or fails, leaves the analyzer's
\* dataset with the columns, rows and cell values it had.
C25_ReportLeavesDatasetAlone ==
  [][GenerateReport => data' = data]_vars

====
